---- MODULE Spec2Model ----
(***************************************************************************)
(* Insurance claim validator backend: the field validators                 *)
(* (ValidationService), the concurrent damage aggregator (VisionService)   *)
(* and the orchestrator ClaimValidationService.validate_claim.             *)
(*                                                                         *)
(* Strings are sequences of one-character strings; Python's None is the    *)
(* reserved one-element sequence NoneStr, so that None and the empty       *)
(* string stay distinct values that are both falsy.  Floats are exact      *)
(* rationals <<numerator, denominator>> in lowest terms.                   *)
(***************************************************************************)
EXTENDS Integers, Sequences, FiniteSets, TLC

(***************************************************************************)
(* Python values                                                           *)
(***************************************************************************)
NoneStr == <<"None">>

Truthy(s) == s # NoneStr /\ s # <<>>

Or(s, t) == IF Truthy(s) THEN s ELSE t

IsSpace(c) == c \in {" ", "\t"}

Range(s) == {s[k] : k \in 1..Len(s)}

RECURSIVE SumSeq(_)
SumSeq(s) == IF s = <<>> THEN 0 ELSE Head(s) + SumSeq(Tail(s))

RECURSIVE GCD(_, _)
GCD(a, b) == IF b = 0 THEN a ELSE GCD(b, a % b)

Rat(n, d) == IF n = 0 THEN <<0, 1>> ELSE <<n \div GCD(n, d), d \div GCD(n, d)>>

RAdd(x, y) == Rat(x[1] * y[2] + y[1] * x[2], x[2] * y[2])

RDiv(x, k) == Rat(x[1], x[2] * k)

RGeq(x, y) == x[1] * y[2] >= y[1] * x[2]

RLt(x, y) == ~RGeq(x, y)

RECURSIVE RSum(_)
RSum(s) ==
    IF s = <<>> THEN Rat(0, 1)
    ELSE \* the sum of the tail is bound, so that it is computed once
         CHOOSE total \in {RAdd(Head(s), rest) : rest \in {RSum(Tail(s))}} : TRUE

\* sum(xs) / len(xs) if xs else 0.0
Mean(xs) == IF xs = <<>> THEN Rat(0, 1) ELSE RDiv(RSum(xs), Len(xs))

BoolNum(b) == IF b THEN 1 ELSE 0

\* variant: 1.0 when every check passed, 0.0 otherwise
MeanBool_AllOrNothing(checks) ==
    IF checks # <<>> /\ \A k \in 1..Len(checks) : checks[k] THEN Rat(1, 1) ELSE Rat(0, 1)

\* sum(checks) / len(checks) if checks else 0.0, checks a list of booleans
MeanBool(checks) ==
    IF checks = <<>> THEN Rat(0, 1)
    ELSE Rat(SumSeq([k \in 1..Len(checks) |-> BoolNum(checks[k])]), Len(checks))

\* list(set(xs)): the order of a set is not specified, so the list is kept
\* as the set of its elements
Dedup(xs) == Range(xs)

\* xs if xs else None
NoneList(xs) == [none |-> xs = <<>>, items |-> xs]

(***************************************************************************)
(* ValidationService: names                                                *)
(***************************************************************************)
Lower(c) ==
    CASE c = "A" -> "a"
      [] c = "B" -> "b"
      [] c = "C" -> "c"
      [] OTHER -> c

\* " ".join(name.lower().strip().split())
RECURSIVE JoinWords(_, _, _)
JoinWords(s, k, seen) ==
    IF k > Len(s) THEN <<>>
    ELSE IF ~IsSpace(s[k]) THEN <<Lower(s[k])>> \o JoinWords(s, k + 1, TRUE)
    ELSE IF seen /\ k < Len(s) /\ ~IsSpace(s[k + 1])
         THEN <<" ">> \o JoinWords(s, k + 1, seen)
         ELSE JoinWords(s, k + 1, seen)

\* variant: only the white space at the ends is removed
normalize_name_TrimOnly(name) ==
    IF ~Truthy(name) THEN <<>>
    ELSE LET first == {k \in 1..Len(name) : ~IsSpace(name[k])}
         IN IF first = {} THEN <<>>
            ELSE [k \in 1..(1 + (CHOOSE b \in first : \A a \in first : a <= b)
                               - (CHOOSE a \in first : \A b \in first : a <= b)) |->
                     Lower(name[k - 1 + (CHOOSE a \in first : \A b \in first : a <= b)])]

normalize_name(name) == IF ~Truthy(name) THEN <<>> ELSE JoinWords(name, 1, FALSE)

\* difflib.SequenceMatcher: blocks a[i..i+k-1] = b[j..j+k-1] inside the
\* windows alo..ahi-1 and blo..bhi-1
Blocks(a, alo, ahi, b, blo, bhi) ==
    {t \in (alo..(ahi - 1)) \X (blo..(bhi - 1)) \X (1..(ahi - alo)) :
        /\ t[1] + t[3] <= ahi
        /\ t[2] + t[3] <= bhi
        /\ \A d \in 0..(t[3] - 1) : a[t[1] + d] = b[t[2] + d]}

\* find_longest_match: longest block, earliest in a, then earliest in b
LongestMatch(a, alo, ahi, b, blo, bhi) ==
    LET bs == Blocks(a, alo, ahi, b, blo, bhi)
    IN CHOOSE t \in bs : \A u \in bs :
          \/ t[3] > u[3]
          \/ t[3] = u[3] /\ t[1] < u[1]
          \/ t[3] = u[3] /\ t[1] = u[1] /\ t[2] <= u[2]

\* get_matching_blocks: total size of the matching blocks
RECURSIVE MatchCount(_, _, _, _, _, _)
MatchCount(a, alo, ahi, b, blo, bhi) ==
    IF Blocks(a, alo, ahi, b, blo, bhi) = {} THEN 0
    ELSE LET t == LongestMatch(a, alo, ahi, b, blo, bhi)
         IN t[3] + MatchCount(a, alo, t[1], b, blo, t[2])
                 + MatchCount(a, t[1] + t[3], ahi, b, t[2] + t[3], bhi)

\* SequenceMatcher(None, a, b).ratio() = 2.0 * matches / (len(a) + len(b)),
\* 1.0 when both are empty
Ratio(a, b) ==
    IF Len(a) + Len(b) = 0 THEN Rat(1, 1)
    ELSE Rat(2 * MatchCount(a, 1, Len(a) + 1, b, 1, Len(b) + 1), Len(a) + Len(b))

name_similarity(name1, name2) ==
    IF ~Truthy(name1) \/ ~Truthy(name2) THEN Rat(0, 1)
    ELSE Ratio(normalize_name(name1), normalize_name(name2))

\* variant: the grey zone counts as a match
HighSimilarity_Grey == Rat(70, 100)

HighSimilarity == Rat(85, 100)

LowSimilarity == Rat(70, 100)

NameValidThreshold == Rat(80, 100)

Msg(text, n) == [text |-> text, n |-> n]

\* variant: the license name takes part in the comparison
PresentNames_WithLicense(policy_name, claim_form_name, license_name, kyc_name) ==
    (IF Truthy(policy_name) THEN <<[doc |-> "policy", name |-> policy_name]>> ELSE <<>>)
    \o (IF Truthy(claim_form_name) THEN <<[doc |-> "claim_form", name |-> claim_form_name]>> ELSE <<>>)
    \o (IF Truthy(license_name) THEN <<[doc |-> "license", name |-> license_name]>> ELSE <<>>)
    \o (IF Truthy(kyc_name) THEN <<[doc |-> "kyc", name |-> kyc_name]>> ELSE <<>>)

\* names: the (doc, name) pairs of the present names; the license name is
\* left out (lines 74-76)
PresentNames(policy_name, claim_form_name, license_name, kyc_name) ==
    (IF Truthy(policy_name) THEN <<[doc |-> "policy", name |-> policy_name]>> ELSE <<>>)
    \o (IF Truthy(claim_form_name) THEN <<[doc |-> "claim_form", name |-> claim_form_name]>> ELSE <<>>)
    \o (IF Truthy(kyc_name) THEN <<[doc |-> "kyc", name |-> kyc_name]>> ELSE <<>>)

\* the pairs (i, j), i < j, in the order of the nested loops
RECURSIVE PairsFrom(_, _, _)
PairsFrom(i, j, n) ==
    IF i >= n THEN <<>>
    ELSE IF j > n THEN PairsFrom(i + 1, i + 2, n)
    ELSE <<<<i, j>>>> \o PairsFrom(i, j + 1, n)

RECURSIVE FlatMap(_, _)
FlatMap(F(_), s) == IF s = <<>> THEN <<>> ELSE F(Head(s)) \o FlatMap(F, Tail(s))

validate_names(policy_name, claim_form_name, license_name, kyc_name) ==
    LET names == PresentNames(policy_name, claim_form_name, license_name, kyc_name)
        pairs == PairsFrom(1, 2, Len(names))
        sim(p) == name_similarity(names[p[1]].name, names[p[2]].name)
        similarities == [k \in 1..Len(pairs) |-> sim(pairs[k])]
        matchedOf(p) == IF RGeq(sim(p), HighSimilarity)
                        THEN <<names[p[1]], names[p[2]]>> ELSE <<>>
        mismatchOf(p) == IF RLt(sim(p), HighSimilarity) /\ RLt(sim(p), LowSimilarity)
                         THEN <<[doc1 |-> names[p[1]].doc, name1 |-> names[p[1]].name,
                                 doc2 |-> names[p[2]].doc, name2 |-> names[p[2]].name,
                                 similarity |-> sim(p)]>>
                         ELSE <<>>
        matched_names == FlatMap(matchedOf, pairs)
        mismatches == FlatMap(mismatchOf, pairs)
        avg_similarity == Mean(similarities)
        is_valid == RGeq(avg_similarity, NameValidThreshold) /\ Len(mismatches) = 0
    IN IF Len(names) < 2
       THEN [is_valid |-> FALSE, confidence |-> Rat(0, 1), matched_names |-> {},
             mismatches |-> NoneList(<<>>),
             message |-> Msg("Insufficient documents for name validation", -1)]
       ELSE [is_valid |-> is_valid, confidence |-> avg_similarity,
             matched_names |-> Dedup(matched_names),
             mismatches |-> NoneList(mismatches),
             message |-> IF is_valid THEN Msg("All names match", -1)
                         ELSE Msg("Name mismatches found: ", Len(mismatches))]

(***************************************************************************)
(* Extracted field-sets (schemas/Claim.py).  An absent field-set (None) is *)
(* the record with present = FALSE.                                        *)
(***************************************************************************)
NoPolicy ==
    [present |-> FALSE, insured_name |-> NoneStr, vehicle_registration |-> NoneStr,
     make |-> NoneStr, model |-> NoneStr,
     policy_start_date |-> NoneStr, policy_expiry_date |-> NoneStr]

NoClaimForm ==
    [present |-> FALSE, insured_name |-> NoneStr, vehicle_registration |-> NoneStr,
     accident_date |-> NoneStr, claim_submission_date |-> NoneStr,
     accident_description |-> NoneStr, damage_location |-> NoneStr]

NoLicense == [present |-> FALSE, name |-> NoneStr, expiry_date |-> NoneStr]

NoKYC == [present |-> FALSE, name |-> NoneStr]

(***************************************************************************)
(* ValidationService: vehicle                                              *)
(***************************************************************************)
Upper(c) ==
    CASE c = "a" -> "A"
      [] c = "b" -> "B"
      [] c = "c" -> "C"
      [] OTHER -> c

\* variant: the registration is upper-cased only
NormalizeReg_KeepsSpaces(reg) == [k \in 1..Len(reg) |-> Upper(reg[k])]

\* reg.replace(" ", "").upper()
RECURSIVE NormalizeReg(_)
NormalizeReg(reg) ==
    IF reg = <<>> THEN <<>>
    ELSE IF Head(reg) = " " THEN NormalizeReg(Tail(reg))
    ELSE <<Upper(Head(reg))>> \o NormalizeReg(Tail(reg))

Tri(b) == IF b THEN "true" ELSE "false"

\* variant: a result is valid from confidence 0.0 on
ValidThreshold_Zero == Rat(0, 1)

ValidThreshold == Rat(8, 10)

\* variant: the policy alone is enough to compare
BothPresent_PolicyOnly(policy_data, claim_form_data) == policy_data.present

\* not (not policy_data or not claim_form_data)
BothPresent(policy_data, claim_form_data) ==
    policy_data.present /\ claim_form_data.present

validate_vehicle(policy_data, claim_form_data) ==
    LET both_reg == Truthy(policy_data.vehicle_registration)
                    /\ Truthy(claim_form_data.vehicle_registration)
        reg_policy == NormalizeReg(policy_data.vehicle_registration)
        reg_claim == NormalizeReg(claim_form_data.vehicle_registration)
        reg_match == both_reg /\ reg_policy = reg_claim
        has_make_model == Truthy(policy_data.make) /\ Truthy(policy_data.model)
        mismatches == IF both_reg /\ ~reg_match
                      THEN <<[text |-> "Registration mismatch: ",
                              a |-> reg_policy, b |-> reg_claim]>>
                      ELSE <<>>
        checks == (IF both_reg THEN <<reg_match>> ELSE <<>>)
                  \o (IF has_make_model THEN <<TRUE>> ELSE <<>>)
        confidence == MeanBool(checks)
        is_valid == Len(mismatches) = 0 /\ RGeq(confidence, ValidThreshold)
    IN IF ~BothPresent(policy_data, claim_form_data)
       THEN [is_valid |-> FALSE, confidence |-> Rat(0, 1),
             registration_match |-> "none", chassis_match |-> "none",
             engine_match |-> "none", make_model_match |-> "none",
             mismatches |-> NoneList(<<>>),
             message |-> Msg("Missing policy or claim form data for vehicle validation", -1)]
       ELSE [is_valid |-> is_valid, confidence |-> confidence,
             registration_match |-> IF both_reg THEN Tri(reg_match) ELSE "none",
             chassis_match |-> "none", engine_match |-> "none",
             make_model_match |-> IF has_make_model THEN "true" ELSE "none",
             mismatches |-> NoneList(mismatches),
             message |-> IF is_valid THEN Msg("Vehicle information matches", -1)
                         ELSE Msg("Vehicle mismatches: ", Len(mismatches))]

(***************************************************************************)
(* ValidationService: dates.  A date string is a sequence of lexical       *)
(* tokens: digit groups, separators, white space, other text.  A parsed    *)
(* date is the number year*10000 + month*100 + day; NoDate is None.        *)
(***************************************************************************)
NoDate == 0

DigitVal(tok) ==
    CASE tok = "2023" -> 2023
      [] tok = "2024" -> 2024
      [] tok = "23" -> 23
      [] tok = "24" -> 24
      [] tok = "99" -> 99
      [] tok = "01" -> 1
      [] tok = "06" -> 6
      [] tok = "12" -> 12
      [] tok = "15" -> 15
      [] tok = "31" -> 31
      [] OTHER -> -1

NumDigits(tok) ==
    IF tok \in {"2023", "2024"} THEN 4
    ELSE IF tok \in {"23", "24", "99", "01", "06", "12", "15", "31"} THEN 2
    ELSE 0

DaysIn(y, m) ==
    IF m \in {4, 6, 9, 11} THEN 30
    ELSE IF m = 2 THEN (IF y % 4 = 0 /\ (y % 100 # 0 \/ y % 400 = 0) THEN 29 ELSE 28)
    ELSE 31

\* does token tok match strptime directive dir ("Y", "y", "m", "d") or the
\* literal separator dir
MatchesDirective(tok, dir) ==
    CASE dir = "Y" -> NumDigits(tok) = 4
      [] dir = "y" -> NumDigits(tok) = 2
      [] dir = "m" -> NumDigits(tok) = 2 /\ DigitVal(tok) \in 1..12
      [] dir = "d" -> NumDigits(tok) = 2 /\ DigitVal(tok) \in 1..31
      [] OTHER -> tok = dir

\* %y: 69..99 are 1969..1999, 00..68 are 2000..2068
TwoDigitYear(v) == IF v >= 69 THEN 1900 + v ELSE 2000 + v

Formats ==
    << <<"Y", "-", "m", "-", "d">>,
       <<"d", "-", "m", "-", "Y">>,
       <<"d", "/", "m", "/", "Y">>,
       <<"Y", "/", "m", "/", "d">>,
       <<"d", "-", "m", "-", "y">>,
       <<"d", "/", "m", "/", "y">> >>

\* date_str.strip()
RECURSIVE StripLeft(_)
StripLeft(s) == IF s # <<>> /\ IsSpace(Head(s)) THEN StripLeft(Tail(s)) ELSE s

RECURSIVE StripRight(_)
StripRight(s) ==
    IF s # <<>> /\ IsSpace(s[Len(s)]) THEN StripRight(SubSeq(s, 1, Len(s) - 1)) ELSE s

Strip(s) == StripRight(StripLeft(s))

\* datetime.strptime(toks, fmt): the date, or NoDate for ValueError
Strptime(toks, fmt) ==
    IF Len(toks) # Len(fmt) \/ \E k \in 1..Len(fmt) : ~MatchesDirective(toks[k], fmt[k])
    THEN NoDate
    ELSE LET pos(dir) == CHOOSE k \in 1..Len(fmt) : fmt[k] = dir
             y == IF \E k \in 1..Len(fmt) : fmt[k] = "Y"
                  THEN DigitVal(toks[pos("Y")])
                  ELSE TwoDigitYear(DigitVal(toks[pos("y")]))
             m == DigitVal(toks[pos("m")])
             d == DigitVal(toks[pos("d")])
         IN IF d > DaysIn(y, m) THEN NoDate ELSE y * 10000 + m * 100 + d

RECURSIVE TryFormats(_, _)
TryFormats(toks, k) ==
    IF k > Len(Formats) THEN NoDate
    ELSE IF Strptime(toks, Formats[k]) # NoDate THEN Strptime(toks, Formats[k])
    ELSE TryFormats(toks, k + 1)

parse_date(date_str) == IF ~Truthy(date_str) THEN NoDate ELSE TryFormats(Strip(date_str), 1)

DMsg(text, d1, d2) == [text |-> text, d1 |-> d1, d2 |-> d2]

\* variant: only the policy dates are reported missing
MissingDates_PolicyOnly(policy_data, claim_form_data, license_data) ==
    (IF policy_data.present /\ ~Truthy(policy_data.policy_start_date)
     THEN <<DMsg("Policy start date is missing", 0, 0)>> ELSE <<>>)
    \o (IF policy_data.present /\ ~Truthy(policy_data.policy_expiry_date)
        THEN <<DMsg("Policy expiry date is missing", 0, 0)>> ELSE <<>>)

\* lines 185-199: a date field of a present field-set that is None or empty
MissingDates(policy_data, claim_form_data, license_data) ==
    (IF policy_data.present /\ ~Truthy(policy_data.policy_start_date)
     THEN <<DMsg("Policy start date is missing", 0, 0)>> ELSE <<>>)
    \o (IF policy_data.present /\ ~Truthy(policy_data.policy_expiry_date)
        THEN <<DMsg("Policy expiry date is missing", 0, 0)>> ELSE <<>>)
    \o (IF claim_form_data.present /\ ~Truthy(claim_form_data.accident_date)
        THEN <<DMsg("Accident date is missing", 0, 0)>> ELSE <<>>)
    \o (IF claim_form_data.present /\ ~Truthy(claim_form_data.claim_submission_date)
        THEN <<DMsg("Claim submission date is missing", 0, 0)>> ELSE <<>>)
    \o (IF license_data.present /\ ~Truthy(license_data.expiry_date)
        THEN <<DMsg("License expiry date is missing", 0, 0)>> ELSE <<>>)

\* policy_start <= accident_date <= policy_expiry
PolicyRule(policy_start, accident_date, policy_expiry) ==
    policy_start <= accident_date /\ accident_date <= policy_expiry

\* variant: a submission on the day of the accident fails the rule
ClaimRule_StrictAccident(accident_date, claim_submission, now) ==
    accident_date < claim_submission /\ claim_submission <= now

\* variant: a submission in the future is accepted
ClaimRule_IgnoresNow(accident_date, claim_submission, now) ==
    accident_date <= claim_submission

\* accident_date <= claim_submission <= current_date
ClaimRule(accident_date, claim_submission, now) ==
    accident_date <= claim_submission /\ claim_submission <= now

\* accident_date <= license_expiry
LicenseRule(accident_date, license_expiry) == accident_date <= license_expiry

validate_dates(policy_data, claim_form_data, license_data, current_date) ==
    LET policy_start == IF policy_data.present /\ Truthy(policy_data.policy_start_date)
                        THEN parse_date(policy_data.policy_start_date) ELSE NoDate
        policy_expiry == IF policy_data.present /\ Truthy(policy_data.policy_expiry_date)
                         THEN parse_date(policy_data.policy_expiry_date) ELSE NoDate
        accident_date == IF claim_form_data.present /\ Truthy(claim_form_data.accident_date)
                         THEN parse_date(claim_form_data.accident_date) ELSE NoDate
        claim_submission ==
            IF claim_form_data.present /\ Truthy(claim_form_data.claim_submission_date)
            THEN parse_date(claim_form_data.claim_submission_date) ELSE NoDate
        license_expiry == IF license_data.present /\ Truthy(license_data.expiry_date)
                          THEN parse_date(license_data.expiry_date) ELSE NoDate
        has(d) == d # NoDate
        missing == MissingDates(policy_data, claim_form_data, license_data)
        \* policy rule
        policy_eval == has(policy_start) /\ has(policy_expiry) /\ has(accident_date)
        policy_ok == PolicyRule(policy_start, accident_date, policy_expiry)
        policy_date_check ==
            IF policy_eval THEN Tri(policy_ok)
            ELSE IF policy_data.present THEN "false" ELSE "none"
        policy_mis ==
            IF policy_eval /\ ~policy_ok
            THEN (IF accident_date < policy_start
                  THEN <<DMsg("Accident date is before policy start", accident_date, policy_start)>>
                  ELSE IF accident_date > policy_expiry
                  THEN <<DMsg("Accident date is after policy expiry", accident_date, policy_expiry)>>
                  ELSE <<>>)
            ELSE <<>>
        \* claim rule
        claim_eval == has(accident_date) /\ has(claim_submission)
        claim_ok == ClaimRule(accident_date, claim_submission, current_date)
        claim_date_check == IF claim_eval THEN Tri(claim_ok) ELSE "none"
        claim_mis ==
            IF claim_eval /\ ~claim_ok
            THEN (IF claim_submission < accident_date
                  THEN <<DMsg("Claim submission is before accident date", claim_submission, accident_date)>>
                  ELSE IF claim_submission > current_date
                  THEN <<DMsg("Claim submission is in the future", claim_submission, 0)>>
                  ELSE <<>>)
            ELSE <<>>
        \* license rule
        license_eval == has(accident_date) /\ has(license_expiry)
        license_ok == LicenseRule(accident_date, license_expiry)
        license_expiry_check == IF license_eval THEN Tri(license_ok) ELSE "none"
        license_mis ==
            IF license_eval /\ ~license_ok
            THEN <<DMsg("License expired before accident", license_expiry, accident_date)>>
            ELSE <<>>
        mismatches == missing \o policy_mis \o claim_mis \o license_mis
        checks == (IF policy_eval THEN <<policy_ok>> ELSE <<>>)
                  \o (IF claim_eval THEN <<claim_ok>> ELSE <<>>)
                  \o (IF license_eval THEN <<license_ok>> ELSE <<>>)
        confidence == MeanBool(checks)
        is_valid == Len(mismatches) = 0 /\ RGeq(confidence, ValidThreshold)
    IN [is_valid |-> is_valid, confidence |-> confidence,
        policy_date_check |-> policy_date_check,
        claim_date_check |-> claim_date_check,
        license_expiry_check |-> license_expiry_check,
        mismatches |-> NoneList(mismatches),
        message |-> IF is_valid THEN Msg("All dates are valid", -1)
                    ELSE Msg("Date validation issues: ", Len(mismatches))]

(***************************************************************************)
(* VisionService: the per-image analyzer.  A response of the external      *)
(* vision API is a record: kind says how the HTTP call ended, data is the  *)
(* JSON object of the message content (absent: keys not in the object,     *)
(* nulls: keys whose value is JSON null; confidence in tenths).            *)
(***************************************************************************)
NoneVal == [none |-> TRUE]

Finding(part, severity) == [part |-> part, severity |-> severity]

Json(dd, locs, parts, m, ckind, cval, absent, nulls) ==
    [detected_damage |-> dd, damage_locations |-> locs, likely_damaged_parts |-> parts,
     matches_description |-> m, confidence |-> [kind |-> ckind, val |-> cval],
     absent |-> absent, nulls |-> nulls]

EmptyData == Json(<<>>, <<>>, <<>>, FALSE, "num", 0, {}, {})

Response(kind, data) == [kind |-> kind, data |-> data]

\* data.get(key, default)
DataGet(data, key, default) ==
    IF key \in data.absent THEN default ELSE data[key]

\* max(0.0, min(1.0, float(confidence))) in tenths
\* variant: the reported confidence is taken as it is
Clamp_Identity(c) == c

Clamp(c) == IF c < 0 THEN 0 ELSE IF c > 10 THEN 10 ELSE c

Failure(error) ==
    [success |-> FALSE, error |-> error, data |-> EmptyData, confidence |-> Rat(0, 1)]

analyze_damage_sync(resp) ==
    IF resp.kind = "http_error" THEN Failure("Groq Vision API error")
    ELSE IF resp.kind \in {"timeout", "no_choices", "bad_json", "not_object"}
    THEN Failure("exception")
    ELSE LET data == resp.data
             confidence == DataGet(data, "confidence", [kind |-> "num", val |-> 0])
         IN IF "confidence" \notin data.nulls /\ confidence.kind = "text"
            THEN Failure("exception")
            ELSE [success |-> TRUE, error |-> "", data |-> data,
                  confidence |-> IF "confidence" \in data.nulls THEN Rat(0, 1)
                                 ELSE Rat(Clamp(confidence.val), 10)]

MaxWorkers == 5

Min(a, b) == IF a < b THEN a ELSE b

\* variant: a pool with one thread per image
max_workers_Uncapped(images) == Len(images)

\* ThreadPoolExecutor(max_workers=min(len(images), 5))
max_workers(images) == Min(Len(images), MaxWorkers)

(***************************************************************************)
(* The environment: what the vision API may answer for an image.           *)
(***************************************************************************)
Bumper == Finding("front bumper", "moderate")
Door == Finding("door", "minor")

OkFront == Json(<<Bumper>>, <<"front">>, <<"front bumper">>, TRUE, "num", 6, {}, {})
OkRear == Json(<<Bumper, Door>>, <<"rear", "front">>, <<"door">>, FALSE, "num", 8, {}, {})
OkHigh == Json(<<>>, <<>>, <<>>, FALSE, "num", 15,
               {"detected_damage", "damage_locations", "likely_damaged_parts",
                "matches_description"}, {})
OkNoConf == Json(<<Door>>, <<"left">>, <<"door">>, TRUE, "num", 0, {"confidence"}, {})
OkNegative == Json(<<Door>>, <<"left">>, <<"door">>, FALSE, "num", -5, {}, {"matches_description"})
OkNullConf == Json(<<Door>>, <<"left">>, <<"door">>, TRUE, "num", 0, {}, {"confidence"})
TextConf == Json(<<Door>>, <<"left">>, <<"door">>, TRUE, "text", 0, {}, {})
NullLocations == Json(<<Door>>, <<>>, <<"door">>, TRUE, "num", 9, {}, {"damage_locations"})
OkPlain == Json(<<Bumper>>, <<"front">>, <<"front bumper">>, TRUE, "num", 10, {}, {})

AnalyzerOutcomes(bytes) ==
    CASE bytes = "front" -> {Response("ok", OkFront), Response("timeout", EmptyData)}
      [] bytes = "rear" -> {Response("ok", OkRear), Response("http_error", EmptyData)}
      [] bytes = "odd" -> {Response("ok", OkHigh), Response("ok", OkNegative),
                           Response("ok", TextConf), Response("bad_json", EmptyData)}
                           \cup {Response("ok", OkNoConf), Response("ok", OkNullConf),
                                 Response("no_choices", EmptyData)}
      [] bytes = "null" -> {Response("ok", NullLocations), Response("not_object", EmptyData)}
      [] OTHER -> {Response("ok", OkPlain)}

(***************************************************************************)
(* Inputs: the stored claims the model starts from.                        *)
(***************************************************************************)
MaxClaimImages == 1
MaxImages == 3

NameA == <<"a", "b", "c", "d">>
NameAUpper == <<" ", "A", "B", "c", "d", " ">>
NameGrey == <<"a", "b", "c", "e">>
NameOther == <<"x", "y", "z">>

Policy(name, reg, make, model, start, expiry) ==
    [present |-> TRUE, insured_name |-> name, vehicle_registration |-> reg,
     make |-> make, model |-> model,
     policy_start_date |-> start, policy_expiry_date |-> expiry]

ClaimForm(name, reg, accident, submission, description, location) ==
    [present |-> TRUE, insured_name |-> name, vehicle_registration |-> reg,
     accident_date |-> accident, claim_submission_date |-> submission,
     accident_description |-> description, damage_location |-> location]

License(name, expiry) == [present |-> TRUE, name |-> name, expiry_date |-> expiry]

KYC(name) == [present |-> TRUE, name |-> name]

Doc(type, data) == [document_type |-> type, extracted_data |-> data]

PolicyDocs ==
    {Doc("policy", Policy(NameA, <<"a", "b", " ", "1">>, <<"M">>, <<"X">>,
                          <<"2023", "-", "01", "-", "01">>, <<"2023", "-", "12", "-", "31">>)),
     Doc("policy", Policy(NameOther, <<"c", "c", "1">>, NoneStr, <<"X">>,
                          NoneStr, <<"June">>))}

GoodClaimForm ==
    Doc("claim_form", ClaimForm(NameAUpper, <<"A", "B", "1">>,
                                <<"15", "/", "06", "/", "2023">>, <<"2023", "-", "06", "-", "15">>,
                                <<"hit">>, <<"front">>))

ClaimFormDocs ==
    {GoodClaimForm,
     Doc("claim_form", ClaimForm(NameGrey, <<>>,
                                 <<"2024", "-", "01", "-", "01">>, NoneStr,
                                 <<>>, NoneStr))}

LicenseDocs ==
    {Doc("driving_license", License(NameOther, <<"31", "-", "12", "-", "24">>)),
     Doc("driving_license", License(NameA, <<"01", "/", "01", "/", "2023">>))}

KYCDocs ==
    {Doc("aadhaar", KYC(NameA)), Doc("pan", KYC(NameOther))}

OtherDocs == {Doc("repair_estimate", [present |-> TRUE])}

Opt(docs) == {<<>>} \cup {<<d>> : d \in docs}

DocLists ==
    {p \o c \o l \o k :
        p \in Opt(PolicyDocs), c \in Opt(ClaimFormDocs), l \in Opt(LicenseDocs),
        k \in Opt(KYCDocs)}
    \cup {<<d>> : d \in OtherDocs}

Paths == <<"f1", "f2", "f3", "f4", "f5", "f6", "f7", "f8">>

\* the k-th stored image of a claim, of the given kind
StoredImage(k, kind) ==
    [filename |-> kind,
     angle_description |-> CASE kind = "front" -> <<"front view">>
                             [] kind = "side" -> <<"left">>
                             [] kind = "odd" -> <<>>
                             [] OTHER -> NoneStr,
     local_path |-> IF kind = "nopath" THEN NoneStr ELSE <<Paths[k]>>]

ImagesOf(kinds) == [k \in 1..Len(kinds) |-> StoredImage(k, kinds[k])]

FilesOf(kinds) ==
    [p \in {Paths[k] : k \in {j \in 1..Len(kinds) : kinds[j] \notin {"nopath", "gone"}}} |->
        kinds[CHOOSE k \in 1..Len(kinds) : Paths[k] = p]]

SeqsUpTo(S, n) == UNION {[1..m -> S] : m \in 0..n}

ClaimKinds == {"front", "null", "nopath", "gone"}
RichKinds == <<"front", "rear", "odd", "null">>

\* the lists of image kinds of length at most n, kinds in the order of RichKinds
RichLists(n) ==
    {[k \in 1..Len(ix) |-> RichKinds[ix[k]]] :
        ix \in {jx \in SeqsUpTo(1..Len(RichKinds), n) :
                    \A k \in 1..(Len(jx) - 1) : jx[k] <= jx[k + 1]}}

\* one image more than the worker cap
OverCap == [k \in 1..(MaxWorkers + 1) |-> IF k = 1 THEN "front" ELSE "plain"]

\* a stored list with an image whose file is gone and one without a local path
Mixed == <<"gone", "front", "nopath">>

Dates == {20230101, 20240615}

(***************************************************************************)
(* State                                                                   *)
(***************************************************************************)
VARIABLES
    claim,              \* the stored claim record (ClaimModel)
    args,               \* arguments of a validator called on its own
    uploads,            \* the upload_document and upload_image calls and their positions
    files,              \* temp_images: local path -> bytes
    current_date,       \* datetime.utcnow()
    pc,                 \* position of validate_claim
    outcome,            \* the dict validate_claim returns
    claim_form_data,
    name_validation, vehicle_validation, date_validation, damage_validation,
    images_with_bytes,  \* argument of analyze_multiple_images
    submitted,          \* number of executor.submit calls made
    task,               \* state of each future: queued, running, done
    calls,              \* arguments of each dispatched analyzer call
    result,             \* future.result() of each finished task
    waiter,             \* as_completed: finished at install, finished since
    acc,                \* all_damage, all_locations, all_parts, confidences, matches
    raised,             \* an exception left the collection loop
    finish_order        \* history: the finished tasks not yet yielded, oldest first

vars == <<claim, args, uploads, files, current_date, pc, outcome, claim_form_data,
          name_validation, vehicle_validation, date_validation, damage_validation,
          images_with_bytes, submitted, task, calls, result, waiter, acc, raised,
          finish_order>>

EmptyAcc ==
    [all_damage |-> <<>>, all_locations |-> {}, all_parts |-> {},
     confidences |-> <<>>, matches |-> <<>>]

NoWaiter == [installed |-> FALSE, fs |-> {}, finished |-> {}, finished_futures |-> <<>>]

\* the claims validate_claim is run on: every combination of documents with
\* a short image list, and one claim form with the longer image lists
Starts ==
    {<<docs, kinds, d>> :
        docs \in DocLists, kinds \in SeqsUpTo(ClaimKinds, MaxClaimImages), d \in Dates}
    \cup {<<<<GoodClaimForm>>, kinds, 20240615>> :
             kinds \in RichLists(MaxImages) \cup {OverCap, Mixed}}

Init ==
    /\ \/ \E st \in Starts :
             /\ claim = [exists |-> TRUE, status |-> "draft", documents |-> st[1],
                         images |-> ImagesOf(st[2]), validation |-> NoneVal]
             /\ files = FilesOf(st[2])
             /\ current_date = st[3]
       \/ /\ claim = [exists |-> FALSE, status |-> "draft", documents |-> <<>>,
                       images |-> <<>>, validation |-> NoneVal]
          /\ files = FilesOf(<<>>)
          /\ current_date \in Dates
    /\ args = NoneVal
    /\ uploads = <<>>
    /\ pc = "start"
    /\ outcome = NoneVal
    /\ claim_form_data = NoClaimForm
    /\ name_validation = NoneVal
    /\ vehicle_validation = NoneVal
    /\ date_validation = NoneVal
    /\ damage_validation = NoneVal
    /\ images_with_bytes = <<>>
    /\ submitted = 0
    /\ task = <<>>
    /\ calls = <<>>
    /\ result = <<>>
    /\ waiter = NoWaiter
    /\ acc = EmptyAcc
    /\ raised = FALSE
    /\ finish_order = <<>>

(***************************************************************************)
(* ClaimValidationService.validate_claim                                   *)
(***************************************************************************)
Max(S) == CHOOSE x \in S : \A y \in S : y <= x

\* the loop over documents: the last document of a type wins
FieldSet(documents, types, none) ==
    LET idx == {k \in 1..Len(documents) : documents[k].document_type \in types}
    IN IF idx = {} THEN none ELSE documents[Max(idx)].extracted_data

RECURSIVE ImagesWithBytes(_, _)

\* variant: an image whose file is gone is passed on with empty bytes
ImagesWithBytes_KeepsMissing(images, fs) ==
    LET kept == SelectSeq(images, LAMBDA img : Truthy(img.local_path))
    IN [k \in 1..Len(kept) |->
           [bytes |-> IF kept[k].local_path[1] \in DOMAIN fs
                      THEN fs[kept[k].local_path[1]] ELSE "",
            angle_description |-> kept[k].angle_description]]

\* images_with_bytes: stored images without a local path or whose file does
\* not exist are skipped
ImagesWithBytes(images, fs) ==
    IF images = <<>> THEN <<>>
    ELSE LET img == Head(images)
             rest == ImagesWithBytes(Tail(images), fs)
         IN IF ~Truthy(img.local_path) THEN rest
            ELSE IF img.local_path[1] \in DOMAIN fs
            THEN <<[bytes |-> fs[img.local_path[1]],
                    angle_description |-> img.angle_description]>> \o rest
            ELSE rest

Fail(error) == [success |-> FALSE, error |-> error]

\* variant: validation refused without a claim form
EarlyError_NeedsClaimForm(c) ==
    IF ~c.exists THEN "Claim not found"
    ELSE IF c.documents = <<>> THEN "No documents found for validation"
    ELSE IF \A k \in 1..Len(c.documents) : c.documents[k].document_type # "claim_form"
    THEN "No claim form found for validation"
    ELSE ""

\* the early returns of validate_claim: the error, or "" to go on
EarlyError(c) ==
    IF ~c.exists THEN "Claim not found"
    ELSE IF c.documents = <<>> THEN "No documents found for validation"
    ELSE ""

\* lines 164-253 up to the call of analyze_multiple_images
ValidateClaimStart ==
    /\ pc = "start"
    /\ IF EarlyError(claim) # ""
       THEN /\ outcome' = Fail(EarlyError(claim))
            /\ pc' = "done"
            /\ UNCHANGED <<claim_form_data, name_validation, vehicle_validation,
                           date_validation, images_with_bytes, task, calls, result>>
       ELSE LET documents == claim.documents
                policy_data == FieldSet(documents, {"policy"}, NoPolicy)
                form == FieldSet(documents, {"claim_form"}, NoClaimForm)
                license_data == FieldSet(documents, {"driving_license"}, NoLicense)
                kyc_data == FieldSet(documents, {"aadhaar", "pan"}, NoKYC)
                with_bytes == IF claim.images # <<>> /\ form.present
                              THEN ImagesWithBytes(claim.images, files) ELSE <<>>
            IN /\ claim_form_data' = form
               /\ name_validation' =
                     validate_names(IF policy_data.present THEN policy_data.insured_name ELSE NoneStr,
                                    IF form.present THEN form.insured_name ELSE NoneStr,
                                    NoneStr,
                                    IF kyc_data.present THEN kyc_data.name ELSE NoneStr)
               /\ vehicle_validation' = validate_vehicle(policy_data, form)
               /\ date_validation' = validate_dates(policy_data, form, license_data, current_date)
               /\ images_with_bytes' = with_bytes
               /\ task' = [k \in 1..Len(with_bytes) |-> "new"]
               /\ calls' = [k \in 1..Len(with_bytes) |-> NoneVal]
               /\ result' = [k \in 1..Len(with_bytes) |-> NoneVal]
               /\ pc' = IF with_bytes # <<>> THEN "submit" ELSE "summarize"
               /\ UNCHANGED outcome
    /\ UNCHANGED <<claim, args, uploads, files, current_date, damage_validation, submitted, waiter,
                   acc, raised, finish_order>>

(***************************************************************************)
(* VisionService.analyze_multiple_images                                   *)
(***************************************************************************)
Running == {k \in 1..Len(task) : task[k] = "running"}

\* executor.submit(self._analyze_damage_sync, bytes, accident_description,
\*                 angle_description or expected_damage_location)
Submit ==
    /\ pc = "submit"
    /\ submitted < Len(images_with_bytes)
    /\ LET i == submitted + 1
           img_data == images_with_bytes[i]
       IN /\ submitted' = i
          /\ task' = [task EXCEPT ![i] = "queued"]
          /\ calls' = [calls EXCEPT ![i] =
                 [image_bytes |-> img_data.bytes,
                  accident_description |-> claim_form_data.accident_description,
                  damage_location |-> Or(img_data.angle_description,
                                         claim_form_data.damage_location)]]
    /\ UNCHANGED <<claim, args, uploads, files, current_date, pc, outcome, claim_form_data,
                   name_validation, vehicle_validation, date_validation,
                   damage_validation, images_with_bytes, result, waiter, acc, raised,
                   finish_order>>

\* a worker thread takes the oldest queued work item; the pool has at most
\* max_workers threads
WorkerRun(i) ==
    /\ task[i] = "queued"
    /\ \A j \in 1..(i - 1) : task[j] # "queued"
    /\ Cardinality(Running) < max_workers(images_with_bytes)
    /\ task' = [task EXCEPT ![i] = "running"]
    /\ UNCHANGED <<claim, args, uploads, files, current_date, pc, outcome, claim_form_data,
                   name_validation, vehicle_validation, date_validation,
                   damage_validation, images_with_bytes, submitted, calls, result,
                   waiter, acc, raised, finish_order>>

\* the analyzer call of task i returns; the future is set and the waiter of
\* as_completed, if installed, is notified
WorkerDone(i) ==
    /\ task[i] = "running"
    /\ \E resp \in AnalyzerOutcomes(calls[i].image_bytes) :
          result' = [result EXCEPT ![i] = analyze_damage_sync(resp)]
    /\ task' = [task EXCEPT ![i] = "done"]
    /\ finish_order' = Append(finish_order, i)
    /\ waiter' = IF waiter.installed
                 THEN [waiter EXCEPT !.finished_futures = Append(@, i)]
                 ELSE waiter
    /\ UNCHANGED <<claim, args, uploads, files, current_date, pc, outcome, claim_form_data,
                   name_validation, vehicle_validation, date_validation,
                   damage_validation, images_with_bytes, submitted, calls, acc,
                   raised>>

\* as_completed(future_to_image): the futures already finished are taken in
\* one set, the waiter collects the others as they finish
AsCompleted ==
    /\ pc = "submit"
    /\ submitted = Len(images_with_bytes)
    /\ waiter' = [installed |-> TRUE,
                  fs |-> 1..Len(task),
                  finished |-> {k \in 1..Len(task) : task[k] = "done"},
                  finished_futures |-> <<>>]
    /\ pc' = "collect"
    /\ UNCHANGED <<claim, args, uploads, files, current_date, outcome, claim_form_data,
                   name_validation, vehicle_validation, date_validation,
                   damage_validation, images_with_bytes, submitted, task, calls,
                   result, acc, raised, finish_order>>

\* variant: the fallback data of a failed result is merged as well
Merge_CountsFailures(a, r) ==
    LET data == r.data
        a1 == [a EXCEPT !.all_damage = @ \o DataGet(data, "detected_damage", <<>>)]
        a2 == [a1 EXCEPT !.all_locations =
                   @ \cup Range(DataGet(data, "damage_locations", <<>>))]
        a3 == [a2 EXCEPT !.all_parts =
                   @ \cup Range(DataGet(data, "likely_damaged_parts", <<>>))]
        a4 == [a3 EXCEPT !.confidences = Append(@, r.confidence),
                         !.matches = Append(@, "matches_description" \notin data.nulls
                                               /\ DataGet(data, "matches_description", FALSE))]
    IN IF "detected_damage" \in data.nulls THEN [acc |-> a, raised |-> TRUE]
       ELSE IF "damage_locations" \in data.nulls THEN [acc |-> a1, raised |-> TRUE]
       ELSE IF "likely_damaged_parts" \in data.nulls THEN [acc |-> a2, raised |-> TRUE]
       ELSE [acc |-> a4, raised |-> FALSE]

\* variant: findings already collected are not added again
Merge_Deduplicates(a, r) ==
    IF ~r.success THEN [acc |-> a, raised |-> FALSE]
    ELSE LET data == r.data
             a1 == [a EXCEPT !.all_damage =
                        @ \o SelectSeq(DataGet(data, "detected_damage", <<>>),
                                       LAMBDA f : f \notin Range(a.all_damage))]
             a2 == [a1 EXCEPT !.all_locations =
                        @ \cup Range(DataGet(data, "damage_locations", <<>>))]
             a3 == [a2 EXCEPT !.all_parts =
                        @ \cup Range(DataGet(data, "likely_damaged_parts", <<>>))]
             a4 == [a3 EXCEPT !.confidences = Append(@, r.confidence),
                              !.matches = Append(@, "matches_description" \notin data.nulls
                                                    /\ DataGet(data, "matches_description", FALSE))]
         IN IF "detected_damage" \in data.nulls THEN [acc |-> a, raised |-> TRUE]
            ELSE IF "damage_locations" \in data.nulls THEN [acc |-> a1, raised |-> TRUE]
            ELSE IF "likely_damaged_parts" \in data.nulls THEN [acc |-> a2, raised |-> TRUE]
            ELSE [acc |-> a4, raised |-> FALSE]

\* the body of the collection loop for one result; raised when a list key of
\* a successful result holds null (extend / update of None)
Merge(a, r) ==
    IF ~r.success THEN [acc |-> a, raised |-> FALSE]
    ELSE LET data == r.data
             a1 == [a EXCEPT !.all_damage = @ \o DataGet(data, "detected_damage", <<>>)]
             a2 == [a1 EXCEPT !.all_locations =
                        @ \cup Range(DataGet(data, "damage_locations", <<>>))]
             a3 == [a2 EXCEPT !.all_parts =
                        @ \cup Range(DataGet(data, "likely_damaged_parts", <<>>))]
             a4 == [a3 EXCEPT !.confidences = Append(@, r.confidence),
                              !.matches = Append(@, "matches_description" \notin data.nulls
                                                    /\ DataGet(data, "matches_description", FALSE))]
         IN IF "detected_damage" \in data.nulls THEN [acc |-> a, raised |-> TRUE]
            ELSE IF "damage_locations" \in data.nulls THEN [acc |-> a1, raised |-> TRUE]
            ELSE IF "likely_damaged_parts" \in data.nulls THEN [acc |-> a2, raised |-> TRUE]
            ELSE [acc |-> a4, raised |-> FALSE]

\* variant: only the futures finished at the call are yielded
NextYield_SnapshotOnly == waiter.finished

\* the future as_completed yields next: any of those finished at the call,
\* then the others in the order they finished
NextYield ==
    IF waiter.finished # {} THEN waiter.finished
    ELSE IF waiter.finished_futures # <<>> THEN {Head(waiter.finished_futures)}
    ELSE {}

\* variant: the loop stops as soon as no finished future is waiting
Exhausted_NoneWaiting(w, i) ==
    IF i \in w.finished THEN w.finished = {i} /\ w.finished_futures = <<>>
    ELSE Len(w.finished_futures) <= 1

\* as_completed stops after yielding i: no future is left
Exhausted(w, i) == w.fs = {i}

\* for future in as_completed(...): one iteration
Collect ==
    /\ pc = "collect"
    /\ \E i \in NextYield :
          LET m == Merge(acc, result[i])
          IN /\ acc' = m.acc
             /\ raised' = m.raised
             /\ finish_order' = SelectSeq(finish_order, LAMBDA k : k # i)
             /\ waiter' = IF i \in waiter.finished
                          THEN [waiter EXCEPT !.finished = @ \ {i}, !.fs = @ \ {i}]
                          ELSE [waiter EXCEPT !.finished_futures = Tail(@), !.fs = @ \ {i}]
             /\ pc' = IF m.raised \/ Exhausted(waiter, i) THEN "shutdown" ELSE "collect"
    /\ UNCHANGED <<claim, args, uploads, files, current_date, outcome, claim_form_data,
                   name_validation, vehicle_validation, date_validation,
                   damage_validation, images_with_bytes, submitted, task, calls,
                   result>>

DamageDetectionResult(a) ==
    [detected_damage |-> a.all_damage,
     damage_locations |-> a.all_locations,
     confidence |-> Mean(a.confidences),
     matches_description |-> \E k \in 1..Len(a.matches) : a.matches[k],
     likely_damaged_parts |-> a.all_parts]

\* variant: what was merged before the exception is kept
VisionOutcome_KeepsPartial(r, a) == DamageDetectionResult(a)

\* damage_validation after the try block of validate_claim: the result of
\* analyze_multiple_images, or None when it raised
VisionOutcome(r, a) == IF r THEN NoneVal ELSE DamageDetectionResult(a)

\* leaving the with block: executor.shutdown(wait=True), then the result is
\* built and returned, or the exception reaches validate_claim, which
\* catches it (lines 250-253)
AggregatorReturn ==
    /\ pc = "shutdown"
    /\ \A k \in 1..Len(task) : task[k] = "done"
    /\ damage_validation' = VisionOutcome(raised, acc)
    /\ pc' = "summarize"
    /\ UNCHANGED <<claim, args, uploads, files, current_date, outcome, claim_form_data,
                   name_validation, vehicle_validation, date_validation,
                   images_with_bytes, submitted, task, calls, result, waiter, acc,
                   raised, finish_order>>

HasAttr(v, attr) == attr \in DOMAIN v

Issue(prefix, message) == [prefix |-> prefix, message |-> message]

\* variant: a damage result with confidence 0.0 is left out
Validations_SkipsZeroDamage(nv, vv, dv, damage) ==
    <<nv, vv, dv>>
    \o (IF damage # NoneVal /\ damage.confidence # Rat(0, 1) THEN <<damage>> ELSE <<>>)

\* validations = [name, vehicle, date] plus the damage result if there is one
Validations(nv, vv, dv, damage) ==
    <<nv, vv, dv>> \o (IF damage # NoneVal THEN <<damage>> ELSE <<>>)

\* variant: a damage result counts with its matches_description
overall_valid_DamageVerdict(validations) ==
    \A k \in 1..Len(validations) :
        IF HasAttr(validations[k], "is_valid") THEN validations[k].is_valid
        ELSE validations[k].matches_description

\* all(v.is_valid for v in validations if hasattr(v, 'is_valid'))
overall_valid(validations) ==
    \A k \in 1..Len(validations) :
        HasAttr(validations[k], "is_valid") => validations[k].is_valid

\* sum(v.confidence for v in validations if hasattr(v, 'confidence'))
\*   / len(validations)
overall_confidence(validations) ==
    LET conf_ones == SelectSeq(validations, LAMBDA v : HasAttr(v, "confidence"))
    IN IF validations = <<>> THEN Rat(0, 1)
       ELSE RDiv(RSum([k \in 1..Len(conf_ones) |-> conf_ones[k].confidence]),
                 Len(validations))

\* variant: only the first failing validator is reported
Issues_FirstOnly(nv, vv, dv) ==
    IF ~nv.is_valid THEN <<Issue("Name validation failed: ", nv.message)>>
    ELSE IF ~vv.is_valid THEN <<Issue("Vehicle validation failed: ", vv.message)>>
    ELSE IF ~dv.is_valid THEN <<Issue("Date validation failed: ", dv.message)>>
    ELSE <<>>

Issues(nv, vv, dv) ==
    (IF ~nv.is_valid THEN <<Issue("Name validation failed: ", nv.message)>> ELSE <<>>)
    \o (IF ~vv.is_valid THEN <<Issue("Vehicle validation failed: ", vv.message)>> ELSE <<>>)
    \o (IF ~dv.is_valid THEN <<Issue("Date validation failed: ", dv.message)>> ELSE <<>>)

\* variant: every damage result is warned about
Warnings_AnyDamage(damage) ==
    IF damage # NoneVal
    THEN <<"Damage in images may not match accident description">>
    ELSE <<>>

\* lines 273-274
Warnings(damage) ==
    IF damage # NoneVal /\ ~damage.matches_description
    THEN <<"Damage in images may not match accident description">>
    ELSE <<>>

ValidationSummary(nv, vv, dv, damage) ==
    [overall_valid |-> overall_valid(Validations(nv, vv, dv, damage)),
     overall_confidence |-> overall_confidence(Validations(nv, vv, dv, damage)),
     name_validation |-> nv,
     vehicle_validation |-> vv,
     date_validation |-> dv,
     damage_validation |-> damage,
     issues |-> Issues(nv, vv, dv),
     warnings |-> Warnings(damage)]

\* lines 255-299: the summary is built, stored with the status and returned
Summarize ==
    /\ pc = "summarize"
    /\ LET validation_summary == ValidationSummary(name_validation, vehicle_validation,
                                                   date_validation, damage_validation)
       IN /\ claim' = [claim EXCEPT !.validation = validation_summary,
                                    !.status = "validated"]
          /\ outcome' = [success |-> TRUE, validation |-> validation_summary]
    /\ pc' = "done"
    /\ UNCHANGED <<args, uploads, files, current_date, claim_form_data, name_validation,
                   vehicle_validation, date_validation, damage_validation,
                   images_with_bytes, submitted, task, calls, result, waiter, acc,
                   raised, finish_order>>

Next ==
    \/ ValidateClaimStart
    \/ Submit
    \/ \E i \in 1..Len(task) : WorkerRun(i)
    \/ \E i \in 1..Len(task) : WorkerDone(i)
    \/ AsCompleted
    \/ Collect
    \/ AggregatorReturn
    \/ Summarize

Spec == Init /\ [][Next]_vars

(***************************************************************************)
(* The validators of ValidationService called on their own, on arguments   *)
(* drawn from bounded sets.                                                *)
(***************************************************************************)
NameSpaced == <<"a", "b", " ", " ", "c">>
NameSpacedUpper == <<"A", "b", " ", "\t", " ", "c", " ">>
NameNear == <<"a", "b", "c", "d", "e">>
NameLong == <<"a", "b", "c", "d", "e", "f", "g", "h", "i", "j">>
NameLongGrey == <<"a", "b", "c", "d", "e", "f", "g", "x", "y", "z">>
Name20 == NameLong \o <<"k", "l", "m", "n", "o", "p", "q", "r", "s", "t">>
Name20High == NameLong \o <<"k", "l", "m", "n", "o", "p", "q", "x", "y", "z">>

NameInputs ==
    {NoneStr, <<>>, NameA, NameAUpper, NameGrey, NameOther, NameSpaced, NameSpacedUpper,
     NameNear, NameLong}

\* names whose similarity is exactly 0.85
LongNameInputs == {NoneStr, NameLong, Name20, Name20High}

\* names whose similarity is exactly 0.70
GreyNameInputs == {NameLong, NameLongGrey}

LicenseNameInputs == {NoneStr, NameA, NameOther}

NameCalls ==
    [fn : {"validate_names"}, policy_name : NameInputs, claim_form_name : NameInputs,
     license_name : LicenseNameInputs, kyc_name : NameInputs]
    \cup [fn : {"validate_names"}, policy_name : LongNameInputs,
          claim_form_name : LongNameInputs, license_name : {NoneStr},
          kyc_name : LongNameInputs]
    \cup [fn : {"validate_names"}, policy_name : GreyNameInputs,
          claim_form_name : GreyNameInputs, license_name : {NoneStr},
          kyc_name : {NoneStr, NameOther}]

RegInputs ==
    {NoneStr, <<>>, <<" ">>, <<"a", "b", " ", "1">>, <<"A", "B", "1">>,
     <<" ", "a", "B", " ", " ", "1">>, <<"c", "c", "1">>}

PolicyVehicleInputs ==
    {NoPolicy}
    \cup {Policy(NameA, reg, make, model, NoneStr, NoneStr) :
             reg \in RegInputs, make \in {NoneStr, <<>>, <<"M">>},
             model \in {NoneStr, <<>>, <<"X">>}}

ClaimFormVehicleInputs ==
    {NoClaimForm}
    \cup {ClaimForm(NameA, reg, NoneStr, NoneStr, NoneStr, NoneStr) : reg \in RegInputs}

VehicleCalls ==
    [fn : {"validate_vehicle"}, policy_data : PolicyVehicleInputs,
     claim_form_data : ClaimFormVehicleInputs]

Jan2023 == <<"2023", "-", "01", "-", "01">>
Dec2023 == <<"2023", "-", "12", "-", "31">>
Jun2023 == <<"15", "/", "06", "/", "2023">>
Jun2023Padded == <<" ", "2023", "/", "06", "/", "15", "\t">>
Jan2024 == <<"2024", "-", "01", "-", "01">>
Jun2024 == <<"2024", "-", "06", "-", "15">>
Dec2024Short == <<"31", "-", "12", "-", "24">>
Jan2023Short == <<"01", "/", "01", "/", "23">>
June31 == <<"31", "/", "06", "/", "2023">>
NotADate == <<"June">>

PolicyDateInputs ==
    {NoPolicy}
    \cup {Policy(NameA, NoneStr, NoneStr, NoneStr, start, expiry) :
             start \in {NoneStr, <<>>, NotADate, Jan2023, Jan2024},
             expiry \in {NoneStr, June31, Dec2023, Jan2023}}

ClaimFormDateInputs ==
    {NoClaimForm}
    \cup {ClaimForm(NameA, NoneStr, accident, submission, NoneStr, NoneStr) :
             accident \in {NoneStr, <<>>, June31, Jun2023, Jun2023Padded, Jan2024},
             submission \in {NoneStr, NotADate, Jun2023, Jun2024, Jan2023Short}}

LicenseDateInputs ==
    {NoLicense}
    \cup {License(NameOther, expiry) :
             expiry \in {NoneStr, <<>>, NotADate, Dec2024Short, Jan2023Short}}

DateCalls ==
    [fn : {"validate_dates"}, policy_data : PolicyDateInputs,
     claim_form_data : ClaimFormDateInputs, license_data : LicenseDateInputs]

ValidatorInit ==
    /\ \/ args \in NameCalls /\ current_date = 20240615
       \/ args \in VehicleCalls /\ current_date = 20240615
       \/ args \in DateCalls /\ current_date \in Dates
    /\ claim = [exists |-> FALSE, status |-> "draft", documents |-> <<>>,
                images |-> <<>>, validation |-> NoneVal]
    /\ uploads = <<>>
    /\ files = FilesOf(<<>>)
    /\ pc = "call"
    /\ outcome = NoneVal
    /\ claim_form_data = NoClaimForm
    /\ name_validation = NoneVal
    /\ vehicle_validation = NoneVal
    /\ date_validation = NoneVal
    /\ damage_validation = NoneVal
    /\ images_with_bytes = <<>>
    /\ submitted = 0
    /\ task = <<>>
    /\ calls = <<>>
    /\ result = <<>>
    /\ waiter = NoWaiter
    /\ acc = EmptyAcc
    /\ raised = FALSE
    /\ finish_order = <<>>

CallValidateNames ==
    /\ pc = "call"
    /\ args.fn = "validate_names"
    /\ name_validation' = validate_names(args.policy_name, args.claim_form_name,
                                         args.license_name, args.kyc_name)
    /\ pc' = "returned"
    /\ UNCHANGED <<claim, args, uploads, files, current_date, outcome, claim_form_data,
                   vehicle_validation, date_validation, damage_validation,
                   images_with_bytes, submitted, task, calls, result, waiter, acc,
                   raised, finish_order>>

CallValidateVehicle ==
    /\ pc = "call"
    /\ args.fn = "validate_vehicle"
    /\ vehicle_validation' = validate_vehicle(args.policy_data, args.claim_form_data)
    /\ pc' = "returned"
    /\ UNCHANGED <<claim, args, uploads, files, current_date, outcome, claim_form_data,
                   name_validation, date_validation, damage_validation,
                   images_with_bytes, submitted, task, calls, result, waiter, acc,
                   raised, finish_order>>

CallValidateDates ==
    /\ pc = "call"
    /\ args.fn = "validate_dates"
    /\ date_validation' = validate_dates(args.policy_data, args.claim_form_data,
                                         args.license_data, current_date)
    /\ pc' = "returned"
    /\ UNCHANGED <<claim, args, uploads, files, current_date, outcome, claim_form_data,
                   name_validation, vehicle_validation, damage_validation,
                   images_with_bytes, submitted, task, calls, result, waiter, acc,
                   raised, finish_order>>

ValidatorNext == CallValidateNames \/ CallValidateVehicle \/ CallValidateDates

ValidatorSpec == ValidatorInit /\ [][ValidatorNext]_vars

(***************************************************************************)
(* Uploads: upload_document and upload_image on the stored claim, each a   *)
(* coroutine suspended at its awaits, interleaved with validate_claim at   *)
(* the operations of the store.                                            *)
(***************************************************************************)
\* an upload_document call: its arguments, what the extraction returns, its
\* position, the claim it read and the dict it returned
DocumentCall(document_type, success, data) ==
    [op |-> "document", document_type |-> document_type, kind |-> "",
     extraction_result |-> [success |-> success, data |-> data],
     pc |-> "new", claim |-> NoneVal, outcome |-> NoneVal]

\* an upload_image call
ImageCall(kind) ==
    [op |-> "image", document_type |-> "", kind |-> kind,
     extraction_result |-> NoneVal,
     pc |-> "new", claim |-> NoneVal, outcome |-> NoneVal]

UploadedPolicy ==
    Policy(NameA, <<"a", "b", " ", "1">>, <<"M">>, <<"X">>,
           <<"2023", "-", "01", "-", "01">>, <<"2023", "-", "12", "-", "31">>)

ReuploadedPolicy ==
    Policy(NameOther, <<"c", "c", "1">>, NoneStr, <<"X">>, NoneStr, <<"June">>)

PolicyUpload == DocumentCall("policy", TRUE, UploadedPolicy)
PolicyReupload == DocumentCall("policy", TRUE, ReuploadedPolicy)
ClaimFormUpload == DocumentCall("claim_form", TRUE, GoodClaimForm.extracted_data)
KYCUpload == DocumentCall("aadhaar", TRUE, KYC(NameA))
FailedUpload == DocumentCall("policy", FALSE, NoPolicy)

\* the calls made on one claim id
UploadPlans ==
    {<<PolicyUpload, ClaimFormUpload, PolicyReupload>>,
     <<ClaimFormUpload, ImageCall("front"), ImageCall("plain")>>,
     <<FailedUpload, KYCUpload, ImageCall("plain")>>}

\* variant: a failed extraction is not noticed
ExtractionFailed_Never(call) == FALSE

\* if not extraction_result["success"]
ExtractionFailed(call) == ~call.extraction_result.success

\* document_data, lines 72-79
document_data(call) == Doc(call.document_type, call.extraction_result.data)

\* image_data, lines 138-143, of the u-th call; the uuid4 file name is unique
image_data(u, call) == StoredImage(u, call.kind)

\* lines 81-91: the first entry of the type is replaced, a new type is appended
PutDocument(documents, data) ==
    LET idx == {k \in 1..Len(documents) : documents[k].document_type = data.document_type}
    IN IF idx # {}
       THEN [documents EXCEPT ![CHOOSE k \in idx : \A j \in idx : k <= j] = data]
       ELSE Append(documents, data)

\* variant: the update also puts the claim back to draft
update_claim_ResetsStatus(c, updates) ==
    [k \in DOMAIN c |-> IF k \in DOMAIN updates THEN updates[k]
                        ELSE IF k = "status" THEN "draft" ELSE c[k]]

\* ClaimModel.update_claim: $set of the given fields on the stored record
update_claim(c, updates) ==
    [k \in DOMAIN c |-> IF k \in DOMAIN updates THEN updates[k] ELSE c[k]]

\* variant: the array read by the call is extended and written back
push_to_array_ReadModifyWrite(c, read, value) ==
    [c EXCEPT !.images = Append(read.images, value)]

\* ClaimModel.push_to_array on "images": $push on the stored record; the
\* claim the caller read plays no part
push_to_array(c, read, value) == [c EXCEPT !.images = Append(@, value)]

\* upload u returns the dict `returned`
Finish(u, returned) == [uploads EXCEPT ![u].pc = "done", ![u].outcome = returned]

\* lines 51-60: OCR and extraction; a failed extraction returns at once
ExtractData(u) ==
    /\ uploads[u].op = "document" /\ uploads[u].pc = "new"
    /\ uploads' = IF ExtractionFailed(uploads[u])
                  THEN Finish(u, Fail("Data extraction failed"))
                  ELSE [uploads EXCEPT ![u].pc = "extracted"]
    /\ UNCHANGED <<claim, args, files, current_date, pc, outcome, claim_form_data,
                   name_validation, vehicle_validation, date_validation,
                   damage_validation, images_with_bytes, submitted, task, calls, result,
                   waiter, acc, raised, finish_order>>

\* lines 63-68: get_claim of upload_document
GetClaimForDocument(u) ==
    /\ uploads[u].op = "document" /\ uploads[u].pc = "extracted"
    /\ uploads' = IF ~claim.exists THEN Finish(u, Fail("Claim not found"))
                  ELSE [uploads EXCEPT ![u].pc = "read", ![u].claim = claim]
    /\ UNCHANGED <<claim, args, files, current_date, pc, outcome, claim_form_data,
                   name_validation, vehicle_validation, date_validation,
                   damage_validation, images_with_bytes, submitted, task, calls, result,
                   waiter, acc, raised, finish_order>>

\* lines 71-101: the documents read are changed and written back
UpdateDocuments(u) ==
    /\ uploads[u].op = "document" /\ uploads[u].pc = "read"
    /\ LET documents == PutDocument(uploads[u].claim.documents, document_data(uploads[u]))
       IN /\ claim' = update_claim(claim, [documents |-> documents])
          /\ uploads' = Finish(u, [success |-> TRUE, data |-> document_data(uploads[u])])
    /\ UNCHANGED <<args, files, current_date, pc, outcome, claim_form_data,
                   name_validation, vehicle_validation, date_validation,
                   damage_validation, images_with_bytes, submitted, task, calls, result,
                   waiter, acc, raised, finish_order>>

\* lines 118-136: get_claim of upload_image, then the file is written
GetClaimForImage(u) ==
    /\ uploads[u].op = "image" /\ uploads[u].pc = "new"
    /\ IF ~claim.exists
       THEN /\ uploads' = Finish(u, Fail("Claim not found"))
            /\ UNCHANGED files
       ELSE /\ uploads' = [uploads EXCEPT ![u].pc = "saved", ![u].claim = claim]
            /\ files' = [p \in DOMAIN files \cup {Paths[u]} |->
                            IF p = Paths[u] THEN uploads[u].kind ELSE files[p]]
    /\ UNCHANGED <<claim, args, current_date, pc, outcome, claim_form_data,
                   name_validation, vehicle_validation, date_validation,
                   damage_validation, images_with_bytes, submitted, task, calls, result,
                   waiter, acc, raised, finish_order>>

\* lines 138-154: the atomic push of image_data
PushImage(u) ==
    /\ uploads[u].op = "image" /\ uploads[u].pc = "saved"
    /\ claim' = push_to_array(claim, uploads[u].claim, image_data(u, uploads[u]))
    /\ uploads' = Finish(u, [success |-> TRUE, data |-> image_data(u, uploads[u])])
    /\ UNCHANGED <<args, files, current_date, pc, outcome, claim_form_data,
                   name_validation, vehicle_validation, date_validation,
                   damage_validation, images_with_bytes, submitted, task, calls, result,
                   waiter, acc, raised, finish_order>>

\* a claim as create_claim stores it, or a claim id the store does not hold
LifecycleInit ==
    /\ \E exists \in BOOLEAN :
          claim = [exists |-> exists, status |-> "draft", documents |-> <<>>,
                   images |-> <<>>, validation |-> NoneVal]
    /\ uploads \in UploadPlans
    /\ files = FilesOf(<<>>)
    /\ current_date = 20240615
    /\ args = NoneVal
    /\ pc = "start"
    /\ outcome = NoneVal
    /\ claim_form_data = NoClaimForm
    /\ name_validation = NoneVal
    /\ vehicle_validation = NoneVal
    /\ date_validation = NoneVal
    /\ damage_validation = NoneVal
    /\ images_with_bytes = <<>>
    /\ submitted = 0
    /\ task = <<>>
    /\ calls = <<>>
    /\ result = <<>>
    /\ waiter = NoWaiter
    /\ acc = EmptyAcc
    /\ raised = FALSE
    /\ finish_order = <<>>

LifecycleNext ==
    \/ \E u \in 1..Len(uploads) : ExtractData(u)
    \/ \E u \in 1..Len(uploads) : GetClaimForDocument(u)
    \/ \E u \in 1..Len(uploads) : UpdateDocuments(u)
    \/ \E u \in 1..Len(uploads) : GetClaimForImage(u)
    \/ \E u \in 1..Len(uploads) : PushImage(u)
    \/ ValidateClaimStart
    \/ Submit
    \/ \E i \in 1..Len(task) : WorkerRun(i)
    \/ \E i \in 1..Len(task) : WorkerDone(i)
    \/ AsCompleted
    \/ Collect
    \/ AggregatorReturn
    \/ Summarize

LifecycleSpec == LifecycleInit /\ [][LifecycleNext]_vars

(***************************************************************************)
(* validate_claim under fair scheduling: the coroutine goes on, the pool's *)
(* threads take queued work, and every analyzer call returns or fails (the *)
(* requests carry a timeout).                                              *)
(***************************************************************************)
\* the stored image lists of the fair runs: more images than workers, a
\* result that makes the collection loop raise, a single image
FairKinds == {OverCap, <<"front", "rear", "null">>, <<"odd">>}

FairInit ==
    /\ Init
    /\ claim.exists
    /\ claim.documents = <<GoodClaimForm>>
    /\ \E kinds \in FairKinds : claim.images = ImagesOf(kinds) /\ files = FilesOf(kinds)

\* the steps of analyze_multiple_images on the thread that called it
MainSteps == Submit \/ AsCompleted \/ Collect \/ AggregatorReturn

\* a thread of the pool takes queued work
PoolSteps == \E i \in 1..Len(task) : WorkerRun(i)

\* an analyzer call returns or fails
AnalyzerSteps == \E i \in 1..Len(task) : WorkerDone(i)

Fairness == WF_vars(MainSteps) /\ WF_vars(PoolSteps) /\ WF_vars(AnalyzerSteps)

FairSpec == FairInit /\ [][Next]_vars /\ Fairness

(***************************************************************************)
(* Properties                                                              *)
(***************************************************************************)
Images == 1..Len(images_with_bytes)

\* the aggregator was called and control is back in validate_claim
AggregatorLeft == pc \in {"summarize", "done"} /\ images_with_bytes # <<>>

\* the images whose analysis reported success
Succeeded == {i \in Images : task[i] = "done" /\ result[i].success}

\* the images already taken by the collection loop
Yielded == IF waiter.installed THEN Images \ waiter.fs ELSE {}

RECURSIVE SumOver(_, _)
SumOver(F(_), S) ==
    IF S = {} THEN 0 ELSE LET x == CHOOSE y \in S : TRUE IN F(x) + SumOver(F, S \ {x})

\* confidence of a result in tenths
Tenths(i) == (result[i].confidence[1] * 10) \div result[i].confidence[2]

ReportedMatch(i) ==
    /\ "matches_description" \notin (result[i].data.absent \cup result[i].data.nulls)
    /\ result[i].data.matches_description

FieldOf(i, key) ==
    IF key \in result[i].data.absent THEN <<>> ELSE result[i].data[key]

\* number of times finding f occurs in list xs
Count(xs, f) == Cardinality({k \in 1..Len(xs) : xs[k] = f})

\* C1: every image whose analysis fails (analyzer error, timeout, malformed
\* response) is the only one excluded: the aggregator returns a result, never
\* raises, and the result holds every successful image.
C1_FailuresIsolated ==
    AggregatorLeft =>
        /\ ~raised
        /\ damage_validation # NoneVal
        /\ Yielded = Images
        /\ Len(damage_validation.detected_damage) =
              SumOver(LAMBDA i : Len(FieldOf(i, "detected_damage")), Succeeded)

\* C2: the aggregated confidence is the mean of the confidences of the
\* successful images only, 0.0 when none succeeded; matches_description is
\* true iff a successful image reported a match.
C2_MeanOfSuccesses ==
    (AggregatorLeft /\ damage_validation # NoneVal) =>
        /\ IF Succeeded = {} THEN damage_validation.confidence = <<0, 1>>
           ELSE damage_validation.confidence[1] * 10 * Cardinality(Succeeded)
                = damage_validation.confidence[2] * SumOver(Tenths, Succeeded)
        /\ damage_validation.matches_description = (\E i \in Succeeded : ReportedMatch(i))

C2_Witness ==
    /\ pc = "done"
    /\ damage_validation # NoneVal
    /\ Cardinality(Succeeded) = 2
    /\ Cardinality(Images) = 3
    /\ damage_validation.confidence = <<7, 10>>
    /\ damage_validation.matches_description

\* the union of a list key over the successful images
UnionOf(key) == UNION {Range(FieldOf(i, key)) : i \in Succeeded}

\* the aggregate is a function of the set of successful results
AggregateOfSuccesses ==
    (AggregatorLeft /\ damage_validation # NoneVal) =>
        /\ damage_validation.damage_locations = UnionOf("damage_locations")
        /\ damage_validation.likely_damaged_parts = UnionOf("likely_damaged_parts")
        /\ \A f \in UnionOf("detected_damage") \cup Range(damage_validation.detected_damage) :
              Count(damage_validation.detected_damage, f)
              = SumOver(LAMBDA i : Count(FieldOf(i, "detected_damage"), f), Succeeded)
        /\ IF Succeeded = {} THEN damage_validation.confidence = <<0, 1>>
           ELSE damage_validation.confidence[1] * 10 * Cardinality(Succeeded)
                = damage_validation.confidence[2] * SumOver(Tenths, Succeeded)
        /\ damage_validation.matches_description = (\E i \in Succeeded : ReportedMatch(i))

\* the collection loop takes image i in this step
YieldStep(i) == i \in waiter.fs /\ i \notin waiter'.fs

\* the findings of the image taken are appended to detected_damage
YieldAppends ==
    \A i \in Images :
        (YieldStep(i) /\ ~raised') =>
            acc'.all_damage = acc.all_damage \o
                (IF result[i].success THEN FieldOf(i, "detected_damage") ELSE <<>>)

\* the image taken is the one that finished first among those not yet taken
YieldsOldest == \A i \in Images : YieldStep(i) => i = Head(finish_order)

C4_OneCallPerImageCapped ==
    /\ Cardinality(Running) <= Min(Len(images_with_bytes), 5)
    /\ \A i \in Images :
          IF i <= submitted
          THEN calls[i] =
                 [image_bytes |-> images_with_bytes[i].bytes,
                  accident_description |-> claim_form_data.accident_description,
                  damage_location |->
                      IF images_with_bytes[i].angle_description \notin {NoneStr, <<>>}
                      THEN images_with_bytes[i].angle_description
                      ELSE claim_form_data.damage_location]
          ELSE calls[i] = NoneVal /\ task[i] = "new"
    /\ AggregatorLeft =>
          submitted = Len(images_with_bytes) /\ \A i \in Images : task[i] = "done"

C4_Witness ==
    /\ Len(images_with_bytes) > MaxWorkers
    /\ Cardinality(Running) = MaxWorkers
    /\ \E i \in Images : task[i] = "queued"

\* C5: the result is built only after every per-image task has completed and
\* has been collected: a result never omits an image whose task succeeds.
C5_BlockingJoin ==
    /\ AggregatorLeft => \A i \in Images : task[i] = "done"
    /\ damage_validation # NoneVal =>
          /\ \A i \in Images : task[i] = "done"
          /\ Yielded = Images
          /\ Len(damage_validation.detected_damage) =
                SumOver(LAMBDA i : Len(FieldOf(i, "detected_damage")), Succeeded)

C5_Witness ==
    /\ pc = "summarize"
    /\ damage_validation # NoneVal
    /\ Len(images_with_bytes) > MaxWorkers
    /\ Cardinality(Succeeded) < Len(images_with_bytes)

(***************************************************************************)
(* Properties of the summary                                               *)
(***************************************************************************)
HasSummary == pc = "done" /\ outcome # NoneVal /\ outcome.success

Summary == outcome.validation

FieldsValid ==
    /\ Summary.name_validation.is_valid
    /\ Summary.vehicle_validation.is_valid
    /\ Summary.date_validation.is_valid

HasDamage == Summary.damage_validation # NoneVal

\* C6 (as stated): overall_valid is the AND over every result present: the
\* three field results, and the damage result as well when there is one (the
\* verdict of a damage result is its matches_description).
C6_AndOfPresentResults ==
    HasSummary =>
        Summary.overall_valid =
            (FieldsValid /\ (HasDamage => Summary.damage_validation.matches_description))

\* C6 (amended): overall_valid is the AND of is_valid of the name, vehicle and
\* date results, whether or not a damage result is present.
C6_AndOfFieldResults == HasSummary => Summary.overall_valid = FieldsValid

C6_Witness ==
    /\ HasSummary
    /\ HasDamage
    /\ ~Summary.damage_validation.matches_description
    /\ Summary.overall_valid

\* C7: overall_confidence is the mean of the confidences of the results
\* present: three when there is no damage result (none when the claim has no
\* images), four when there is one, a 0.0 damage result included.
C7_MeanOfPresentResults ==
    HasSummary =>
        LET three == RAdd(RAdd(Summary.name_validation.confidence,
                               Summary.vehicle_validation.confidence),
                          Summary.date_validation.confidence)
        IN /\ IF HasDamage
              THEN Summary.overall_confidence =
                      RDiv(RAdd(three, Summary.damage_validation.confidence), 4)
              ELSE Summary.overall_confidence = RDiv(three, 3)
           /\ claim.images = <<>> => ~HasDamage
           /\ HasDamage = (damage_validation # NoneVal)

C7_Witness ==
    /\ HasSummary
    /\ HasDamage
    /\ Succeeded = {}
    /\ Summary.damage_validation.confidence = <<0, 1>>
    /\ Summary.overall_confidence = <<3, 4>>

IsResult(v) == v # NoneVal /\ HasAttr(v, "is_valid") /\ HasAttr(v, "confidence")

CompleteSummary ==
    /\ outcome # NoneVal
    /\ outcome.success
    /\ IsResult(Summary.name_validation)
    /\ IsResult(Summary.vehicle_validation)
    /\ IsResult(Summary.date_validation)

NoFieldSets ==
    \A k \in 1..Len(claim.documents) :
        claim.documents[k].document_type
            \notin {"policy", "claim_form", "driving_license", "aadhaar", "pan"}

\* C8 (as stated): validate_claim on an existing claim always yields one
\* complete summary, whichever field-sets and fields are absent.
C8_AlwaysSummary == (pc = "done" /\ claim.exists) => CompleteSummary

\* C8 (amended): validate_claim on an existing claim with at least one stored
\* document always yields one complete summary, whichever field-sets and
\* fields are absent; with every field-set absent the summary is invalid with
\* confidence 0.0.
C8_SummaryWhenDocuments ==
    (pc = "done" /\ claim.exists /\ claim.documents # <<>>) =>
        /\ CompleteSummary
        /\ NoFieldSets =>
              ~Summary.overall_valid /\ Summary.overall_confidence = <<0, 1>>

C8_Witness == pc = "done" /\ claim.exists /\ claim.documents # <<>> /\ NoFieldSets

\* the summary of the same claim without images
NoImagesSummary ==
    LET documents == claim.documents
        policy_data == FieldSet(documents, {"policy"}, NoPolicy)
        form == FieldSet(documents, {"claim_form"}, NoClaimForm)
        license_data == FieldSet(documents, {"driving_license"}, NoLicense)
        kyc_data == FieldSet(documents, {"aadhaar", "pan"}, NoKYC)
    IN ValidationSummary(
           validate_names(policy_data.insured_name, form.insured_name, NoneStr, kyc_data.name),
           validate_vehicle(policy_data, form),
           validate_dates(policy_data, form, license_data, current_date),
           NoneVal)

\* C9: when the aggregator raises, the summary is still produced and stored,
\* without a damage result; its field results, issues and overall_valid are
\* those of the same claim without images.
C9_AggregatorFailureCaught ==
    (pc = "done" /\ raised) =>
        /\ outcome # NoneVal
        /\ outcome.success
        /\ claim.validation = Summary
        /\ claim.status = "validated"
        /\ ~HasDamage
        /\ Summary.name_validation = NoImagesSummary.name_validation
        /\ Summary.vehicle_validation = NoImagesSummary.vehicle_validation
        /\ Summary.date_validation = NoImagesSummary.date_validation
        /\ Summary.issues = NoImagesSummary.issues
        /\ Summary.overall_valid = NoImagesSummary.overall_valid

C9_Witness == pc = "done" /\ raised /\ Succeeded # {} /\ outcome.success

\* C10: issues holds one entry for each of the name, vehicle and date results
\* that is not valid, in that order, and nothing else; a damage failure or
\* mismatch adds none, so issues is empty iff the three results are valid.
C10_IssuesPerFailedField ==
    HasSummary =>
        LET entries == <<[failed |-> ~Summary.name_validation.is_valid,
                          prefix |-> "Name validation failed: ",
                          message |-> Summary.name_validation.message],
                         [failed |-> ~Summary.vehicle_validation.is_valid,
                          prefix |-> "Vehicle validation failed: ",
                          message |-> Summary.vehicle_validation.message],
                         [failed |-> ~Summary.date_validation.is_valid,
                          prefix |-> "Date validation failed: ",
                          message |-> Summary.date_validation.message]>>
            failed == SelectSeq(entries, LAMBDA e : e.failed)
        IN /\ Summary.issues =
                 [k \in 1..Len(failed) |->
                     [prefix |-> failed[k].prefix, message |-> failed[k].message]]
           /\ (Summary.issues = <<>>) = FieldsValid

C10_Witness ==
    /\ HasSummary
    /\ HasDamage
    /\ ~Summary.damage_validation.matches_description
    /\ Len(Summary.issues) = 2

\* C11: warnings holds exactly one entry when there is a damage result whose
\* matches_description is false, and is empty otherwise (no damage result, or
\* matches_description true).
C11_WarningIffNoMatch ==
    HasSummary =>
        IF HasDamage /\ ~Summary.damage_validation.matches_description
        THEN Len(Summary.warnings) = 1
        ELSE Summary.warnings = <<>>

C11_Witness ==
    /\ HasSummary
    /\ HasDamage
    /\ ~Summary.damage_validation.matches_description
    /\ Succeeded # {}
    /\ Len(Summary.warnings) = 1

(***************************************************************************)
(* Properties of the validators                                            *)
(***************************************************************************)
\* a direct call of validator fn has returned
Returned(fn) == pc = "returned" /\ args.fn = fn

Absent(v) == v \in {NoneStr, <<>>}

\* the date a field of an argument parses to; NoDate when the field-set is
\* absent, the field is absent or the string is no date
ParsedField(doc, field) ==
    IF args[doc].present THEN parse_date(args[doc][field]) ELSE NoDate

ArgStart == ParsedField("policy_data", "policy_start_date")
ArgExpiry == ParsedField("policy_data", "policy_expiry_date")
ArgAccident == ParsedField("claim_form_data", "accident_date")
ArgSubmission == ParsedField("claim_form_data", "claim_submission_date")
ArgLicenseExpiry == ParsedField("license_data", "expiry_date")

DateMismatches == Range(date_validation.mismatches.items)

DateFields ==
    <<[doc |-> "policy_data", field |-> "policy_start_date",
       text |-> "Policy start date is missing"],
      [doc |-> "policy_data", field |-> "policy_expiry_date",
       text |-> "Policy expiry date is missing"],
      [doc |-> "claim_form_data", field |-> "accident_date",
       text |-> "Accident date is missing"],
      [doc |-> "claim_form_data", field |-> "claim_submission_date",
       text |-> "Claim submission date is missing"],
      [doc |-> "license_data", field |-> "expiry_date",
       text |-> "License expiry date is missing"]>>

\* the argument doc with every date string that is no date taken out
Blanked(doc) ==
    [f \in DOMAIN args[doc] |->
        IF /\ \E k \in 1..Len(DateFields) : DateFields[k].doc = doc /\ DateFields[k].field = f
           /\ parse_date(args[doc][f]) = NoDate
        THEN NoneStr ELSE args[doc][f]]

\* C12: for each present field-set, every expected date field that is absent
\* or does not parse adds its 'missing' mismatch, so that a date string that
\* does not parse gives the same is_valid and mismatches as an absent one.
C12_UnparseableIsMissing ==
    Returned("validate_dates") =>
        /\ \A k \in 1..Len(DateFields) :
              (ParsedField(DateFields[k].doc, DateFields[k].field) = NoDate
               /\ args[DateFields[k].doc].present)
                  => DMsg(DateFields[k].text, 0, 0) \in DateMismatches
        /\ LET absent == validate_dates(Blanked("policy_data"), Blanked("claim_form_data"),
                                        Blanked("license_data"), current_date)
           IN /\ date_validation.is_valid = absent.is_valid
              /\ date_validation.mismatches = absent.mismatches

PolicyParsed == ArgStart # NoDate /\ ArgExpiry # NoDate /\ ArgAccident # NoDate
ClaimParsed == ArgAccident # NoDate /\ ArgSubmission # NoDate
LicenseParsed == ArgAccident # NoDate /\ ArgLicenseExpiry # NoDate

Flag(b) == IF b THEN "true" ELSE "false"

\* each rule whose dates all parsed has the value of its ordering predicate
FlagsAreOrderings ==
    /\ PolicyParsed =>
          date_validation.policy_date_check =
              Flag(ArgStart <= ArgAccident /\ ArgAccident <= ArgExpiry)
    /\ ClaimParsed =>
          date_validation.claim_date_check =
              Flag(ArgAccident <= ArgSubmission /\ ArgSubmission <= current_date)
    /\ LicenseParsed =>
          date_validation.license_expiry_check = Flag(ArgAccident <= ArgLicenseExpiry)

AfterExpiryReported ==
    /\ date_validation.policy_date_check = "false"
    /\ DMsg("Accident date is after policy expiry", ArgAccident, ArgExpiry) \in DateMismatches

\* C13 (as stated): whenever the dates of a rule have parsed, its flag equals
\* its ordering predicate, and an accident date after the policy expiry gives
\* policy_date_check false with an 'after policy expiry' mismatch.
C13_RulesAreOrderings ==
    Returned("validate_dates") =>
        /\ FlagsAreOrderings
        /\ (PolicyParsed /\ ArgAccident > ArgExpiry) => AfterExpiryReported

\* C13 (amended): whenever the dates of a rule have parsed, its flag equals
\* its ordering predicate; an accident date after the policy expiry gives
\* policy_date_check false, with an 'after policy expiry' mismatch when the
\* accident date is not before the policy start and a 'before policy start'
\* mismatch when it is.
C13_RulesAreOrderingsFirstReason ==
    Returned("validate_dates") =>
        /\ FlagsAreOrderings
        /\ (PolicyParsed /\ ArgAccident > ArgExpiry) =>
              /\ date_validation.policy_date_check = "false"
              /\ IF ArgAccident >= ArgStart THEN AfterExpiryReported
                 ELSE DMsg("Accident date is before policy start", ArgAccident, ArgStart)
                         \in DateMismatches

C13_Witness ==
    /\ Returned("validate_dates")
    /\ PolicyParsed /\ ClaimParsed /\ LicenseParsed
    /\ ArgAccident > ArgExpiry
    /\ AfterExpiryReported
    /\ date_validation.claim_date_check = "true"
    /\ date_validation.license_expiry_check = "true"

\* the values of the rules whose dates all parsed
EvaluatedRules ==
    (IF PolicyParsed THEN <<ArgStart <= ArgAccident /\ ArgAccident <= ArgExpiry>> ELSE <<>>)
    \o (IF ClaimParsed
        THEN <<ArgAccident <= ArgSubmission /\ ArgSubmission <= current_date>> ELSE <<>>)
    \o (IF LicenseParsed THEN <<ArgAccident <= ArgLicenseExpiry>> ELSE <<>>)

TrueRules == Cardinality({k \in 1..Len(EvaluatedRules) : EvaluatedRules[k]})

\* confidence is the mean of the evaluated rules
ConfidenceOfEvaluated ==
    IF EvaluatedRules = <<>> THEN date_validation.confidence = <<0, 1>>
    ELSE date_validation.confidence[1] * Len(EvaluatedRules)
         = TrueRules * date_validation.confidence[2]

\* C14: when the document owning a rule is there but a date of the rule is
\* missing, policy_date_check is false, claim_date_check and
\* license_expiry_check are none, and no value enters checks (confidence is
\* the mean of the other rules); a claim form with an accident date and no
\* submission date gives claim_date_check none and the mismatch 'Claim
\* submission date is missing'.
C14_UnevaluatedRules ==
    Returned("validate_dates") =>
        /\ (args.policy_data.present /\ ~PolicyParsed) =>
              date_validation.policy_date_check = "false"
        /\ (args.claim_form_data.present /\ ~ClaimParsed) =>
              date_validation.claim_date_check = "none"
        /\ (args.license_data.present /\ ~LicenseParsed) =>
              date_validation.license_expiry_check = "none"
        /\ ConfidenceOfEvaluated
        /\ (/\ args.claim_form_data.present
            /\ ~Absent(args.claim_form_data.accident_date)
            /\ Absent(args.claim_form_data.claim_submission_date)) =>
              /\ date_validation.claim_date_check = "none"
              /\ DMsg("Claim submission date is missing", 0, 0) \in DateMismatches

C14_Witness ==
    /\ Returned("validate_dates")
    /\ args.policy_data.present /\ ~PolicyParsed
    /\ args.claim_form_data.present /\ ArgAccident # NoDate
    /\ Absent(args.claim_form_data.claim_submission_date)
    /\ LicenseParsed
    /\ date_validation.policy_date_check = "false"
    /\ date_validation.claim_date_check = "none"
    /\ date_validation.confidence = <<1, 1>>

\* C15: confidence is the mean of the booleans of the rules evaluated, 0.0
\* when none was; is_valid holds iff mismatches is empty and confidence is at
\* least 0.8.
C15_ConfidenceAndValidity ==
    Returned("validate_dates") =>
        /\ ConfidenceOfEvaluated
        /\ date_validation.is_valid =
              (/\ date_validation.mismatches.none
               /\ date_validation.confidence[1] * 10 >= 8 * date_validation.confidence[2])

C15_Witness ==
    /\ Returned("validate_dates")
    /\ Len(EvaluatedRules) = 3
    /\ date_validation.confidence = <<2, 3>>
    /\ ~date_validation.is_valid

NameFields == <<"policy_name", "claim_form_name", "kyc_name">>

DocOf(field) ==
    CASE field = "policy_name" -> "policy"
      [] field = "claim_form_name" -> "claim_form"
      [] OTHER -> "kyc"

PresentFields == {k \in 1..Len(NameFields) : ~Absent(args[NameFields[k]])}

\* C16: with fewer than two names present among policy, claim form and KYC
\* the result is invalid with confidence 0.0 and the message 'Insufficient
\* documents for name validation', whatever the one name and whatever the
\* license name.
C16_TooFewNames ==
    (Returned("validate_names") /\ Cardinality(PresentFields) < 2) =>
        /\ ~name_validation.is_valid
        /\ name_validation.confidence = <<0, 1>>
        /\ name_validation.matched_names = {}
        /\ name_validation.mismatches.none
        /\ name_validation.message.text = "Insufficient documents for name validation"

C16_Witness ==
    /\ Returned("validate_names")
    /\ Cardinality(PresentFields) = 1
    /\ \E k \in PresentFields : args[NameFields[k]] = args.license_name
    /\ ~name_validation.is_valid

\* the unordered pairs of present names
PresentPairs == {p \in PresentFields \X PresentFields : p[1] < p[2]}

PairSimilarity(p) == name_similarity(args[NameFields[p[1]]], args[NameFields[p[2]]])

High(p) == PairSimilarity(p)[1] * 100 >= 85 * PairSimilarity(p)[2]

Low(p) == PairSimilarity(p)[1] * 100 < 70 * PairSimilarity(p)[2]

NameEntry(k) == [doc |-> DocOf(NameFields[k]), name |-> args[NameFields[k]]]

\* the entries of mismatches about the pair p
EntriesOf(p) ==
    {k \in 1..Len(name_validation.mismatches.items) :
        /\ name_validation.mismatches.items[k].doc1 = DocOf(NameFields[p[1]])
        /\ name_validation.mismatches.items[k].doc2 = DocOf(NameFields[p[2]])}

\* C17: for every pair of present names, similarity >= 0.85 puts both names
\* in matched_names (without duplicates), similarity < 0.70 puts exactly one
\* entry for the pair in mismatches, and a similarity in between adds nothing.
C17_PairsByThreshold ==
    (Returned("validate_names") /\ Cardinality(PresentFields) >= 2) =>
        /\ name_validation.matched_names =
              {NameEntry(k) : k \in {j \in PresentFields :
                                        \E p \in PresentPairs : High(p) /\ j \in {p[1], p[2]}}}
        /\ \A p \in PresentPairs :
              Cardinality(EntriesOf(p)) = IF Low(p) THEN 1 ELSE 0
        /\ Len(name_validation.mismatches.items) = Cardinality({p \in PresentPairs : Low(p)})

C17_Witness ==
    /\ Returned("validate_names")
    /\ Cardinality(PresentFields) = 3
    /\ Cardinality({p \in PresentPairs : High(p)}) = 1
    /\ Cardinality({p \in PresentPairs : Low(p)}) = 1
    /\ Cardinality(name_validation.matched_names) = 2
    /\ Len(name_validation.mismatches.items) = 1

\* the words of a name in lower case
RECURSIVE Words(_, _)
Words(s, word) ==
    IF s = <<>> THEN (IF word = <<>> THEN <<>> ELSE <<word>>)
    ELSE IF IsSpace(Head(s))
    THEN (IF word = <<>> THEN <<>> ELSE <<word>>) \o Words(Tail(s), <<>>)
    ELSE Words(Tail(s), Append(word, Lower(Head(s))))

SameWords(p) == Words(args[NameFields[p[1]]], <<>>) = Words(args[NameFields[p[2]]], <<>>)

\* the pairs of present names as a sequence
PairSeq == SelectSeq(<<<<1, 2>>, <<1, 3>>, <<2, 3>>>>, LAMBDA p : p \in PresentPairs)

\* C18: with two or more present names, confidence is the mean of the
\* pairwise similarities, is_valid holds iff confidence >= 0.80 and no pair is
\* below 0.70, and names equal after normalization have similarity 1.0.
C18_MeanSimilarity ==
    (Returned("validate_names") /\ Cardinality(PresentFields) >= 2) =>
        /\ name_validation.confidence =
              RDiv(RSum([k \in 1..Len(PairSeq) |-> PairSimilarity(PairSeq[k])]), Len(PairSeq))
        /\ name_validation.is_valid =
              (/\ name_validation.confidence[1] * 100 >= 80 * name_validation.confidence[2]
               /\ \A p \in PresentPairs : ~Low(p))
        /\ \A p \in PresentPairs : SameWords(p) => PairSimilarity(p) = <<1, 1>>

C18_Witness ==
    /\ Returned("validate_names")
    /\ Cardinality(PresentFields) = 3
    /\ \E p \in PresentPairs :
          SameWords(p) /\ args[NameFields[p[1]]] # args[NameFields[p[2]]]
    /\ name_validation.is_valid
    /\ name_validation.confidence # <<1, 1>>

\* C19: without policy data or without claim-form data the vehicle result is
\* invalid with confidence 0.0, every match flag none and no mismatches,
\* whatever the fields of the field-set that is there.
C19_VehicleNeedsBoth ==
    (Returned("validate_vehicle")
     /\ (~args.policy_data.present \/ ~args.claim_form_data.present)) =>
        /\ ~vehicle_validation.is_valid
        /\ vehicle_validation.confidence = <<0, 1>>
        /\ vehicle_validation.registration_match = "none"
        /\ vehicle_validation.chassis_match = "none"
        /\ vehicle_validation.engine_match = "none"
        /\ vehicle_validation.make_model_match = "none"
        /\ vehicle_validation.mismatches.none

C19_Witness ==
    /\ Returned("validate_vehicle")
    /\ args.policy_data.present
    /\ ~args.claim_form_data.present
    /\ ~Absent(args.policy_data.vehicle_registration)
    /\ ~Absent(args.policy_data.make)
    /\ ~Absent(args.policy_data.model)
    /\ vehicle_validation.confidence = <<0, 1>>

\* a registration without its spaces, in upper case
Squeezed(reg) ==
    LET kept == SelectSeq(reg, LAMBDA c : c # " ")
    IN [k \in 1..Len(kept) |-> Upper(kept[k])]

\* C20: with both documents, registration_match is none iff a registration
\* is absent and otherwise tells whether the registrations are equal without
\* spaces and in upper case; make_model_match is true iff the policy has a
\* make and a model, none otherwise; chassis_match and engine_match are none
\* in every result.
C20_ThreeValuedFlags ==
    Returned("validate_vehicle") =>
        /\ vehicle_validation.chassis_match = "none"
        /\ vehicle_validation.engine_match = "none"
        /\ (args.policy_data.present /\ args.claim_form_data.present) =>
              /\ vehicle_validation.registration_match =
                    IF \/ Absent(args.policy_data.vehicle_registration)
                       \/ Absent(args.claim_form_data.vehicle_registration)
                    THEN "none"
                    ELSE Flag(Squeezed(args.policy_data.vehicle_registration)
                              = Squeezed(args.claim_form_data.vehicle_registration))
              /\ vehicle_validation.make_model_match =
                    IF ~Absent(args.policy_data.make) /\ ~Absent(args.policy_data.model)
                    THEN "true" ELSE "none"

C20_Witness ==
    /\ Returned("validate_vehicle")
    /\ args.policy_data.present /\ args.claim_form_data.present
    /\ args.policy_data.vehicle_registration # args.claim_form_data.vehicle_registration
    /\ Len(args.policy_data.vehicle_registration) > Len(args.claim_form_data.vehicle_registration)
    /\ vehicle_validation.registration_match = "true"
    /\ vehicle_validation.make_model_match = "none"

\* the checks validate_vehicle performs on its arguments
VehicleChecks ==
    (IF \/ Absent(args.policy_data.vehicle_registration)
        \/ Absent(args.claim_form_data.vehicle_registration)
     THEN <<>>
     ELSE <<Squeezed(args.policy_data.vehicle_registration)
            = Squeezed(args.claim_form_data.vehicle_registration)>>)
    \o (IF ~Absent(args.policy_data.make) /\ ~Absent(args.policy_data.model)
        THEN <<TRUE>> ELSE <<>>)

\* C21: with both documents, confidence is the mean of the checks performed
\* (registration equality, and true for a policy with make and model), 0.0
\* when none was performed; is_valid holds iff mismatches is empty and
\* confidence is at least 0.8, so a registration mismatch is never valid and
\* a valid result has at least one check.
C21_VehicleConfidence ==
    (Returned("validate_vehicle") /\ args.policy_data.present /\ args.claim_form_data.present) =>
        LET passed == Cardinality({k \in 1..Len(VehicleChecks) : VehicleChecks[k]})
            conf == vehicle_validation.confidence
        IN /\ IF VehicleChecks = <<>> THEN conf = <<0, 1>>
              ELSE conf[1] * Len(VehicleChecks) = passed * conf[2]
           /\ vehicle_validation.is_valid =
                 (vehicle_validation.mismatches.none /\ conf[1] * 10 >= 8 * conf[2])
           /\ vehicle_validation.registration_match = "false" =>
                 ~vehicle_validation.is_valid /\ ~vehicle_validation.mismatches.none
           /\ vehicle_validation.is_valid => VehicleChecks # <<>>

C21_Witness ==
    /\ Returned("validate_vehicle")
    /\ args.policy_data.present /\ args.claim_form_data.present
    /\ vehicle_validation.registration_match = "false"
    /\ vehicle_validation.make_model_match = "true"
    /\ vehicle_validation.confidence = <<1, 2>>
    /\ ~vehicle_validation.is_valid

\* the rational c lies in [0, 1]
InUnit(c) == c[2] > 0 /\ 0 <= c[1] /\ c[1] <= c[2]

\* the confidence the analyzer's JSON reported for image i, in tenths
ReportedConfidence(i) == DataGet(result[i].data, "confidence", [kind |-> "num", val |-> 0])

\* C22: every confidence of a result (name, vehicle, date, damage, and the
\* summary's overall_confidence) lies in [0, 1]; a confidence the analyzer
\* reports outside [0, 1] is clamped before it enters the aggregate.
C22_ConfidencesInUnit ==
    /\ \A v \in {name_validation, vehicle_validation, date_validation, damage_validation} :
          v # NoneVal => InUnit(v.confidence)
    /\ \A i \in Images : task[i] = "done" => InUnit(result[i].confidence)
    /\ \A k \in 1..Len(acc.confidences) : InUnit(acc.confidences[k])
    /\ HasSummary =>
          /\ InUnit(Summary.overall_confidence)
          /\ InUnit(Summary.name_validation.confidence)
          /\ InUnit(Summary.vehicle_validation.confidence)
          /\ InUnit(Summary.date_validation.confidence)
          /\ HasDamage => InUnit(Summary.damage_validation.confidence)

C22_Witness ==
    /\ HasSummary /\ HasDamage
    /\ \E i \in Succeeded :
          /\ "confidence" \notin (result[i].data.absent \cup result[i].data.nulls)
          /\ ReportedConfidence(i).val > 10
          /\ result[i].confidence = <<1, 1>>
    /\ \E i \in Succeeded :
          /\ ReportedConfidence(i).val < 0
          /\ result[i].confidence = <<0, 1>>

\* the evaluated rules whose ordering does not hold
FailingRules == Cardinality({k \in 1..Len(EvaluatedRules) : ~EvaluatedRules[k]})

\* the rules validate_dates reported as evaluated and failed
FailedFlags ==
    {f \in {"policy", "claim", "license"} :
        \/ f = "policy" /\ PolicyParsed /\ date_validation.policy_date_check = "false"
        \/ f = "claim" /\ ClaimParsed /\ date_validation.claim_date_check = "false"
        \/ f = "license" /\ LicenseParsed /\ date_validation.license_expiry_check = "false"}

\* C28: every evaluated rule that fails appends at least one mismatch, so
\* is_valid holds iff mismatches is empty and at least one rule was
\* evaluated; with no rule evaluated the result is invalid with confidence
\* 0.0.
C28_FailingRuleHasMismatch ==
    Returned("validate_dates") =>
        /\ Len(date_validation.mismatches.items) >= FailingRules
        /\ Len(date_validation.mismatches.items) >= Cardinality(FailedFlags)
        /\ date_validation.mismatches.none = (date_validation.mismatches.items = <<>>)
        /\ date_validation.is_valid =
              (date_validation.mismatches.none /\ Len(EvaluatedRules) >= 1)
        /\ EvaluatedRules = <<>> =>
              ~date_validation.is_valid /\ date_validation.confidence = <<0, 1>>

\* no rule was evaluated and nothing was reported, yet the result is invalid
C28_Witness ==
    /\ Returned("validate_dates")
    /\ EvaluatedRules = <<>>
    /\ date_validation.mismatches.none
    /\ ~date_validation.is_valid
    /\ args.claim_form_data.present

\* the stored images validate_claim can read: a local path whose file exists
Readable == {k \in 1..Len(claim.images) :
                /\ Truthy(claim.images[k].local_path)
                /\ claim.images[k].local_path[1] \in DOMAIN files}

\* analyze_multiple_images has been entered
AggregatorCalled ==
    \/ pc \in {"submit", "collect"}
    \/ submitted > 0 \/ task # <<>> \/ waiter.installed \/ damage_validation # NoneVal

\* validate_claim is past its early returns
PastEarlyReturns == pc # "start" /\ ~(pc = "done" /\ ~outcome.success)

\* C29: validate_claim calls the aggregator only with a non-empty image
\* list: stored images without a local path or whose file is gone are
\* skipped, and when none remains or the claim has no claim form the
\* aggregator is not called, damage_validation stays absent and the pool is
\* never created with zero workers.
C29_AggregatorOnlyWithImages ==
    /\ AggregatorCalled =>
          /\ images_with_bytes # <<>>
          /\ max_workers(images_with_bytes) >= 1
          /\ claim_form_data.present
    /\ PastEarlyReturns =>
          /\ Len(images_with_bytes) =
                IF claim_form_data.present THEN Cardinality(Readable) ELSE 0
          /\ \A k \in 1..Len(images_with_bytes) :
                \E j \in Readable :
                   /\ images_with_bytes[k].bytes = files[claim.images[j].local_path[1]]
                   /\ images_with_bytes[k].angle_description = claim.images[j].angle_description
          /\ (Readable = {} \/ ~claim_form_data.present) =>
                /\ ~AggregatorCalled
                /\ pc \in {"summarize", "done"}
                /\ HasSummary => ~HasDamage

\* a claim form and stored images, none of them readable
C29_Witness ==
    /\ HasSummary /\ ~HasDamage
    /\ claim_form_data.present
    /\ claim.images # <<>> /\ Readable = {}
    /\ ~AggregatorCalled

\* one readable image among three stored ones reaches the aggregator
C29_SkippedWitness ==
    /\ HasSummary /\ HasDamage
    /\ Len(claim.images) = 3 /\ Cardinality(Readable) = 1
    /\ Len(images_with_bytes) = 1

\* the upload calls of each operation
DocumentCalls == {u \in 1..Len(uploads) : uploads[u].op = "document"}
ImageCalls == {u \in 1..Len(uploads) : uploads[u].op = "image"}

\* upload u has returned success / failure
Uploaded(u) == uploads[u].pc = "done" /\ uploads[u].outcome.success
Refused(u) == uploads[u].pc = "done" /\ ~uploads[u].outcome.success

\* the stored entries of a document type
EntriesOfType(documents, type) == SelectSeq(documents, LAMBDA d : d.document_type = type)

DocumentTypes == {"policy", "claim_form", "aadhaar"}

\* C23: for two upload_document calls on the same claim with different
\* document types, in every interleaving of their read and write steps, both
\* documents are in the claim's documents once both calls returned success.
C23_BothDocumentsPresent ==
    \A u, v \in DocumentCalls :
        (/\ uploads[u].document_type # uploads[v].document_type
         /\ Uploaded(u) /\ Uploaded(v)) =>
            /\ EntriesOfType(claim.documents, uploads[u].document_type) # <<>>
            /\ EntriesOfType(claim.documents, uploads[v].document_type) # <<>>

\* C24: for concurrent upload_image calls, each call that returned success
\* has its entry in the claim's images exactly once.
C24_EachImageOnce ==
    \A u \in ImageCalls :
        Uploaded(u) =>
            Cardinality({k \in 1..Len(claim.images) :
                            claim.images[k] = uploads[u].outcome.data}) = 1

\* two image uploads that both read the claim before either pushed
C24_Witness ==
    /\ Cardinality(ImageCalls) = 2
    /\ \A u \in ImageCalls : Uploaded(u) /\ uploads[u].claim.images = <<>>
    /\ Len(claim.images) = 2

\* no document type has two stored entries
AtMostOnePerType ==
    \A type \in DocumentTypes : Len(EntriesOfType(claim.documents, type)) <= 1

\* C25: in any sequence or interleaving of upload_document calls on a claim
\* created with empty documents, the write of an upload leaves the stored
\* entries of the other types unchanged (and no type has two entries).
C25_OtherTypesUnchanged ==
    [][\A u \in DocumentCalls :
          (uploads[u].pc = "read" /\ uploads'[u].pc = "done") =>
              /\ AtMostOnePerType'
              /\ \A type \in DocumentTypes \ {uploads[u].document_type} :
                    EntriesOfType(claim'.documents, type)
                    = EntriesOfType(claim.documents, type)]_vars

\* C26: status moves only from 'draft' to 'validated', and only by a
\* validate_claim that produced a summary, written in the same update as the
\* summary; uploads leave status and the stored summary unchanged, and a
\* validate_claim that returns failure writes neither.
C26_StatusOnlyByValidation ==
    [][/\ claim'.status # claim.status =>
             /\ claim.status = "draft" /\ claim'.status = "validated"
             /\ pc = "summarize" /\ pc' = "done"
             /\ outcome'.success /\ claim'.validation = outcome'.validation
       /\ claim'.validation # claim.validation =>
             /\ pc = "summarize" /\ pc' = "done"
             /\ claim'.status = "validated"
             /\ outcome'.success /\ claim'.validation = outcome'.validation
       /\ uploads' # uploads =>
             claim'.status = claim.status /\ claim'.validation = claim.validation
       /\ (outcome' # outcome /\ ~outcome'.success) =>
             claim'.status = claim.status /\ claim'.validation = claim.validation]_vars

\* an upload that read the validated claim has written, the status and the
\* summary are those of the validation
C26_Witness ==
    /\ HasSummary
    /\ claim.status = "validated" /\ claim.validation = Summary
    /\ \E u \in 1..Len(uploads) : Uploaded(u) /\ uploads[u].claim.status = "validated"

\* C27: upload_document, upload_image and validate_claim on a claim that
\* does not exist, validate_claim on a claim with no documents, and
\* upload_document whose extraction fails return failure, and a call that
\* returns failure leaves the stored claim unchanged.
C27_FailuresWriteNothing ==
    [][/\ \A u \in 1..Len(uploads) :
             (uploads[u].pc # "done" /\ uploads'[u].pc = "done") =>
                 /\ ~uploads'[u].outcome.success => claim' = claim
                 /\ ~claim.exists => ~uploads'[u].outcome.success
                 /\ (uploads[u].op = "document" /\ ~uploads[u].extraction_result.success) =>
                       ~uploads'[u].outcome.success
       /\ (pc # "done" /\ pc' = "done") =>
             /\ ~outcome'.success => claim' = claim
             /\ ~claim.exists => ~outcome'.success
       /\ (pc = "start" /\ pc' # "start" /\ claim.exists /\ claim.documents = <<>>) =>
             pc' = "done" /\ ~outcome'.success /\ claim' = claim]_vars

\* an upload whose extraction failed and a validation without documents
\* have both returned failure on a stored claim
C27_Witness ==
    /\ claim.exists /\ claim.documents = <<>> /\ claim.status = "draft"
    /\ \E u \in DocumentCalls : ~uploads[u].extraction_result.success /\ Refused(u)
    /\ pc = "done" /\ outcome = Fail("No documents found for validation")

\* every call on a claim id the store does not hold has returned failure
C27_NotFoundWitness ==
    /\ ~claim.exists
    /\ \A u \in 1..Len(uploads) : Refused(u)
    /\ DocumentCalls # {} /\ ImageCalls # {}
    /\ pc = "done" /\ outcome = Fail("Claim not found")
    /\ claim.documents = <<>> /\ claim.images = <<>> /\ files = FilesOf(<<>>)

\* C30: analyze_multiple_images terminates when every analyzer call
\* eventually returns or fails: for any number of images, more than five
\* included, every submitted task eventually runs to its end and the
\* aggregator eventually returns.
C30_AggregatorTerminates ==
    (pc = "submit") ~> (AggregatorLeft /\ \A i \in Images : task[i] = "done")

\* a run with more images than workers has returned a damage result
C30_Witness ==
    /\ pc = "done" /\ HasSummary /\ HasDamage
    /\ Len(images_with_bytes) > MaxWorkers
    /\ \A i \in Images : task[i] = "done"

====
